---- MODULE Spec2Model ----
(***************************************************************************)
(* Goodreads CSV -> database synchronisation pipeline of the personal      *)
(* reading dashboard backend: the three reconciliation passes              *)
(* (update_books, delete_books, deduplicate_books), the batch insert       *)
(* (ingest_books_to_db) and the orchestrator that sequences them           *)
(* (orchestrate_csv_to_db).                                                *)
(*                                                                         *)
(* A goodreads_id is a Python str.  The model writes ids as naturals:      *)
(* 0 stands for the empty string "" (the only falsy str), 1..MaxId for     *)
(* distinct non-empty strings.  CSVBook.goodreads_id is a plain `str`      *)
(* field, so the empty string passes validation and can reach every pass.  *)
(*                                                                         *)
(* The store is the committed content of the `books` table: a set of rows  *)
(* [goodreads_id, status], at most one row per goodreads_id (the column    *)
(* is UNIQUE).  A SQLAlchemy fault can strike where the code talks to the  *)
(* database: at the SELECT of a pass ("query") or at its COMMIT            *)
(* ("commit").  A failed COMMIT writes nothing (the transaction is         *)
(* atomic).                                                                *)
(*                                                                         *)
(* Nine specifications: SpecPass calls the passes one at a time on any     *)
(* table; SpecUpdate calls update_books on rows with further columns;      *)
(* SpecOrder calls update_books and delete_books once each, in either      *)
(* order; SpecParse applies parse_goodreads_csv to a file, twice; SpecById *)
(* calls the endpoints /books/{book_id}; Spec is one run of                *)
(* orchestrate_csv_to_db with each record's enrichment as one step;        *)
(* SpecRerun lets a second run follow a run that returned; SpecEnrich      *)
(* follows one new record through get_google_books_data request by         *)
(* request, then through merge and insert; SpecMerge applies               *)
(* process_api_response and transform_book to one candidate with all the   *)
(* fields the merge reads.                                                 *)
(***************************************************************************)
EXTENDS Integers, Sequences, FiniteSets, TLC

\* ------------------------------------------------------------------ bounds
MaxId == 2
MaxLen == 2
MaxCalls == 2
MaxPages == 1
MaxRows == 2

\* ------------------------------------------------------------- data model
\* Book.goodreads_id / CSVBook.goodreads_id values (0 is "").
Ids == 0..MaxId

\* CSVBook.status values.  The passes only ever compare two statuses for
\* equality, so two of the three literals ("currently-reading" is the
\* third) give every outcome of every comparison.
Status == {"read", "to-read"}

\* A parsed candidate (CSVBook), reduced to the fields the passes read.
CSVBook == [goodreads_id : Ids, status : Status]

\* A stored row (Book), reduced to the fields the passes read or write.
Book == [goodreads_id : Ids, status : Status]

\* goodreads_id is UNIQUE in the table.
UniqueIds(rows) ==
    \A r1, r2 \in rows : r1.goodreads_id = r2.goodreads_id => r1 = r2

Stores == {s \in SUBSET Book : UniqueIds(s)}

\* A stored row with the columns the update pass does not assign: title
\* stands for the descriptive columns, updated_at (a tick count, 0 when the
\* row was inserted) is the column declared with onupdate=datetime.now.
BookWithTitle ==
    [goodreads_id : Ids, status : Status, title : {"Dune"}, updated_at : {0}]

StoresWithTitle == {s \in SUBSET BookWithTitle : UniqueIds(s)}

RECURSIVE SeqsUpTo(_, _)
SeqsUpTo(S, n) ==
    IF n = 0 THEN {<<>>}
    ELSE LET shorter == SeqsUpTo(S, n - 1)
         IN shorter \cup {Append(q, x) : q \in {t \in shorter : Len(t) = n - 1}, x \in S}

\* Every list[CSVBook] the passes can be handed, up to MaxLen records.
BookSeqs == SeqsUpTo(CSVBook, MaxLen)

\* Where a SQLAlchemyError can strike inside one pass.
Faults == {"none", "query", "commit"}

\* ------------------------------------------------------------ pure helpers
\* Python truthiness of a str: `if (book_id := book.goodreads_id)`.
Truthy(book_id) == book_id # 0

\* [book_id for book in books if (book_id := book.goodreads_id)]
incoming_ids(books) ==
    {books[i].goodreads_id : i \in {j \in 1..Len(books) : Truthy(books[j].goodreads_id)}}

\* [(book_id, book.status) for book in books if (book_id := book.goodreads_id)]
incoming_books(books) == SelectSeq(books, LAMBDA b : Truthy(b.goodreads_id))

\* db.query(Book).filter(Book.goodreads_id.in_(ids)).all()
QueryIn(store, ids) == {r \in store : r.goodreads_id \in ids}

\* A variant of the delete filter with in_ where the code has not_in.
QueryNotInSwapped(store, ids) == {r \in store : r.goodreads_id \in ids}

\* db.query(Book).filter(Book.goodreads_id.not_in(ids)).all()
QueryNotIn(store, ids) == {r \in store : r.goodreads_id \notin ids}

StoreIds(store) == {r.goodreads_id : r \in store}

AllIds(books) == {books[i].goodreads_id : i \in 1..Len(books)}

\* ------------------------------------------------------ result of one pass
\* What one call of a pass leaves behind: the committed store, the returned
\* count, the goodreads_ids whose row was written (one entry per write, in
\* order: a status assignment or a db.delete), the COMMITs and ROLLBACKs
\* issued, the exception that left the function ("none" on a normal
\* return) and, for deduplicate_books, the returned list.
Result(op, store, count, written, commits, rollbacks, raised, new_books) ==
    [op |-> op, store |-> store, count |-> count, written |-> written,
     commits |-> commits, rollbacks |-> rollbacks, raised |-> raised,
     new_books |-> new_books]

\* ------------------------------------------------------------ update_books
\* `existing_book.status != new_status`
StatusDiffers(old_status, new_status) == old_status # new_status

\* What the UPDATE of a row does besides the assigned column: a column
\* with onupdate=datetime.now, where the row has one, gets the time of the
\* write, which is later than the time it held.
onupdate(existing_book) ==
    [column \in DOMAIN existing_book |->
        IF column = "updated_at"
        THEN existing_book.updated_at + 1
        ELSE existing_book[column]]

\* The flush of db.commit(): one UPDATE for every loaded row that differs
\* from what was loaded.
flush(existing_books, rows) ==
    {IF r \in existing_books THEN r ELSE onupdate(r) : r \in rows}

\* A variant of the loop that writes the matched row anew from the incoming
\* pair, which carries no other column.
RECURSIVE UpdateLoopRebuildRow(_, _)
UpdateLoopRebuildRow(pairs, st) ==
    IF pairs = <<>> THEN st
    ELSE LET b == Head(pairs)
             hit == {r \in st.rows : r.goodreads_id = b.goodreads_id}
         IN IF hit # {} /\ StatusDiffers((CHOOSE r \in hit : TRUE).status, b.status)
            THEN UpdateLoopRebuildRow(Tail(pairs),
                     [rows |-> (st.rows \ hit) \cup
                                  {[goodreads_id |-> b.goodreads_id, status |-> b.status,
                                    title |-> "", updated_at |-> 0]},
                      count |-> st.count + 1,
                      written |-> Append(st.written, b.goodreads_id)])
            ELSE UpdateLoopRebuildRow(Tail(pairs), st)

\* The for-loop over incoming_books: st = [rows, count, written] is the
\* session's view of the queried rows and the running count.  The one
\* assignment is existing_book.status = new_status.
RECURSIVE UpdateLoop(_, _)
UpdateLoop(pairs, st) ==
    IF pairs = <<>> THEN st
    ELSE LET b == Head(pairs)
             hit == {r \in st.rows : r.goodreads_id = b.goodreads_id}
         IN IF hit # {} /\ StatusDiffers((CHOOSE r \in hit : TRUE).status, b.status)
            THEN UpdateLoop(Tail(pairs),
                     [rows |-> (st.rows \ hit) \cup
                                  {[existing_book EXCEPT !.status = b.status] :
                                       existing_book \in hit},
                      count |-> st.count + 1,
                      written |-> Append(st.written, b.goodreads_id)])
            ELSE UpdateLoop(Tail(pairs), st)

\* A variant of the loop that COMMITs after every row instead of once at
\* the end; a commit fault strikes the last COMMIT, the earlier ones stand.
RECURSIVE UpdateLoopPerRow(_, _, _)
UpdateLoopPerRow(pairs, st, fault) ==
    IF pairs = <<>> THEN st
    ELSE LET b == Head(pairs)
             hit == {r \in st.rows : r.goodreads_id = b.goodreads_id}
             applied == [rows |-> (st.rows \ hit) \cup
                                     {[goodreads_id |-> b.goodreads_id, status |-> b.status]},
                         count |-> st.count + 1,
                         written |-> Append(st.written, b.goodreads_id),
                         raised |-> FALSE]
             rest == UpdateLoop(Tail(pairs),
                         [rows |-> applied.rows, count |-> 0, written |-> <<>>])
         IN IF hit # {} /\ (CHOOSE r \in hit : TRUE).status # b.status
            THEN IF fault = "commit" /\ rest.count = 0
                 THEN [st EXCEPT !.raised = TRUE]
                 ELSE UpdateLoopPerRow(Tail(pairs), applied, fault)
            ELSE UpdateLoopPerRow(Tail(pairs), st, fault)

update_books_commit_per_row(books, store, fault) ==
    IF books = <<>>
    THEN Result("update", store, 0, <<>>, 0, 0, "none", <<>>)
    ELSE IF fault = "query"
    THEN Result("update", store, 0, <<>>, 0, 1, "SQLAlchemyError", <<>>)
    ELSE LET existing_books == QueryIn(store, incoming_ids(books))
             st == UpdateLoopPerRow(incoming_books(books),
                       [rows |-> existing_books, count |-> 0, written |-> <<>>,
                        raised |-> FALSE], fault)
         IN Result("update", (store \ existing_books) \cup st.rows, st.count, st.written,
                   Len(st.written), IF st.raised THEN 1 ELSE 0,
                   IF st.raised THEN "SQLAlchemyError" ELSE "none", <<>>)

update_books(books, store, fault) ==
    IF books = <<>>
    THEN Result("update", store, 0, <<>>, 0, 0, "none", <<>>)
    ELSE IF fault = "query"
    THEN Result("update", store, 0, <<>>, 0, 1, "SQLAlchemyError", <<>>)
    ELSE LET existing_books == QueryIn(store, incoming_ids(books))
             st == UpdateLoop(incoming_books(books),
                       [rows |-> existing_books, count |-> 0, written |-> <<>>])
         IN IF st.count > 0
            THEN IF fault = "commit"
                 THEN Result("update", store, st.count, st.written, 0, 1,
                             "SQLAlchemyError", <<>>)
                 ELSE Result("update",
                             (store \ existing_books) \cup flush(existing_books, st.rows),
                             st.count, st.written, 1, 0, "none", <<>>)
            ELSE Result("update", store, 0, <<>>, 0, 0, "none", <<>>)

\* ------------------------------------------------------------ delete_books
\* A set as a sequence, lowest goodreads_id first (the order of the rows
\* the SELECT returns does not matter to any count or to the final store).
RECURSIVE IdSeq(_)
IdSeq(ids) ==
    IF ids = {} THEN <<>>
    ELSE LET m == CHOOSE x \in ids : \A y \in ids : x <= y
         IN <<m>> \o IdSeq(ids \ {m})

\* `if books:` guards the whole pass
\* (DeleteGuardNone: the pass without that guard.)
DeleteGuardNone(books) == TRUE

DeleteGuard(books) == books # <<>>

\* A variant of the delete pass that also deletes the rows whose status is
\* not the one an incoming record gives them.
delete_books_stale_status(books, store, fault) ==
    IF ~DeleteGuard(books)
    THEN Result("delete", store, 0, <<>>, 0, 0, "none", <<>>)
    ELSE IF fault = "query"
    THEN Result("delete", store, 0, <<>>, 0, 1, "SQLAlchemyError", <<>>)
    ELSE LET books_to_delete ==
                 {r \in store : \A j \in 1..Len(books) :
                                    \/ books[j].goodreads_id # r.goodreads_id
                                    \/ books[j].status # r.status}
             count == Cardinality(books_to_delete)
             written == IdSeq(StoreIds(books_to_delete))
         IN IF count > 0
            THEN IF fault = "commit"
                 THEN Result("delete", store, count, written, 0, 1, "SQLAlchemyError", <<>>)
                 ELSE Result("delete", store \ books_to_delete, count, written, 1, 0,
                             "none", <<>>)
            ELSE Result("delete", store, 0, <<>>, 0, 0, "none", <<>>)

delete_books(books, store, fault) ==
    IF ~DeleteGuard(books)
    THEN Result("delete", store, 0, <<>>, 0, 0, "none", <<>>)
    ELSE IF fault = "query"
    THEN Result("delete", store, 0, <<>>, 0, 1, "SQLAlchemyError", <<>>)
    ELSE LET books_to_delete == QueryNotIn(store, incoming_ids(books))
             count == Cardinality(books_to_delete)
             written == IdSeq(StoreIds(books_to_delete))
         IN IF count > 0
            THEN IF fault = "commit"
                 THEN Result("delete", store, count, written, 0, 1, "SQLAlchemyError", <<>>)
                 ELSE Result("delete", store \ books_to_delete, count, written, 1, 0,
                             "none", <<>>)
            ELSE Result("delete", store, 0, <<>>, 0, 0, "none", <<>>)

\* ------------------------------------------------------- deduplicate_books
\* A variant with new_books = [] bound before the try: the query fault is
\* caught and logged, and the empty list is returned.
deduplicate_books_return_empty(books, store, fault) ==
    IF fault = "query"
    THEN Result("dedup", store, 0, <<>>, 0, 0, "none", <<>>)
    ELSE LET existing_goodreads_ids == StoreIds(QueryIn(store, incoming_ids(books)))
             new_books == SelectSeq(books,
                              LAMBDA b : b.goodreads_id \notin existing_goodreads_ids)
         IN Result("dedup", store, 0, <<>>, 0, 0, "none", new_books)

\* The query fault is caught and logged by `except Exception`; the
\* `return new_books` after it then reads a name that was never bound.
deduplicate_books(books, store, fault) ==
    IF fault = "query"
    THEN Result("dedup", store, 0, <<>>, 0, 0, "UnboundLocalError", <<>>)
    ELSE LET existing_goodreads_ids == StoreIds(QueryIn(store, incoming_ids(books)))
             new_books == SelectSeq(books,
                              LAMBDA b : b.goodreads_id \notin existing_goodreads_ids)
         IN Result("dedup", store, 0, <<>>, 0, 0, "none", new_books)

\* ----------------------------------------------------------- transform_book
\* An optional value: None, or the value in a one-element tuple.
None == <<>>
Some(x) == <<x>>
Optional(S) == {None} \cup {Some(x) : x \in S}

\* The fields of a CSVBook that transform_book reads.  The parser can
\* produce an empty title or author and any num_pages from 0 up.
Titles == {"", "Dune (Dune #1)"}
Authors == {"", "Frank Herbert"}
CSVBookFields ==
    [title : Titles, author : Authors, num_pages : Optional(0..MaxPages),
     goodreads_id : Ids, status : Status, finish_date : Optional({"2024-01-31"})]

\* re.sub(r'\s*\([^)]*\)', '', book.title).strip()
clean_title(title) == IF title = "Dune (Dune #1)" THEN "Dune" ELSE title

\* data["items"][0] of a response with items: its id and the entries of its
\* volumeInfo, each of which may be missing.
FirstResults ==
    [id : {"gb-1"},
     title : Optional({"", "Dune Deluxe"}),
     authors : Optional({<<>>, <<"F. Herbert", "B. Herbert">>}),
     pageCount : Optional(0..MaxPages),
     categories : Optional({<<"Fiction", "Classics">>})]

\* Python falsiness of an optional string, list and int.
FalsyStr(v) == v = None \/ v[1] = ""
FalsyList(v) == v = None \/ Len(v[1]) = 0
FalsyInt(v) == v = None \/ v[1] = 0

\* A variant of process_api_response that takes the volume's authors as
\* they are.
process_api_response_volume_authors(first_result, title, author) ==
    [google_books_id |-> Some(first_result.id),
     title |-> IF ~FalsyStr(first_result.title) THEN first_result.title[1] ELSE title,
     authors |-> first_result.authors,
     page_count |-> first_result.pageCount,
     categories |-> first_result.categories,
     genre |-> IF ~FalsyList(first_result.categories)
               THEN Some(first_result.categories[1][1]) ELSE None]

\* The book dictionary assembled from the first item; title and author are
\* the arguments get_google_books_data was called with.
process_api_response(first_result, title, author) ==
    [google_books_id |-> Some(first_result.id),
     title |-> IF ~FalsyStr(first_result.title) THEN first_result.title[1] ELSE title,
     authors |-> IF ~FalsyList(first_result.authors)
                 THEN first_result.authors ELSE Some(<<author>>),
     page_count |-> first_result.pageCount,
     categories |-> first_result.categories,
     genre |-> IF ~FalsyList(first_result.categories)
               THEN Some(first_result.categories[1][1]) ELSE None]

\* A variant of the merged title that prefers the Google Books title.
merged_title_google_first(book, g) == IF g.title # "" THEN g.title ELSE book.title

\* title=book.title if book.title else google_books_data.get("title")
merged_title(book, g) == IF book.title # "" THEN book.title ELSE g.title

\* page_count = book.num_pages if book.num_pages else
\*              google_books_data.get("page_count")
merged_page_count(book, g) ==
    IF ~FalsyInt(book.num_pages) THEN book.num_pages ELSE g.page_count

\* A variant of the CSV-only record that marks itself with a Google Books id.
csv_only_book_with_id(book) ==
    [google_books_id |-> Some("gb-1"), title |-> book.title,
     authors |-> <<book.author>>, page_count |-> book.num_pages,
     categories |-> None, genre |-> None, status |-> book.status,
     goodreads_id |-> book.goodreads_id, finish_date |-> book.finish_date]

\* The else branch: BookCreate from the CSV fields, every other field at its
\* default None.
csv_only_book(book) ==
    [google_books_id |-> None, title |-> book.title,
     authors |-> <<book.author>>, page_count |-> book.num_pages,
     categories |-> None, genre |-> None, status |-> book.status,
     goodreads_id |-> book.goodreads_id, finish_date |-> book.finish_date]

\* The BookCreate built from a candidate and its optional Google Books data,
\* or the ValidationError BookCreate(...) raises when authors is None
\* (authors: list[str] is required).
transform_book(book, google_books_data) ==
    IF google_books_data # None
    THEN LET g == google_books_data[1]
         IN IF g.authors = None
            THEN [raised |-> "ValidationError", book |-> None]
            ELSE [raised |-> "none",
                  book |-> Some([google_books_id |-> g.google_books_id,
                                 title |-> merged_title(book, g),
                                 authors |-> g.authors[1],
                                 page_count |-> merged_page_count(book, g),
                                 categories |-> g.categories,
                                 genre |-> g.genre,
                                 status |-> book.status,
                                 goodreads_id |-> book.goodreads_id,
                                 finish_date |-> book.finish_date])]
    ELSE [raised |-> "none", book |-> Some(csv_only_book(book))]

\* In the run the model keeps, of a BookCreate, the durable fields and
\* whether Google data was merged in.
BookCreate == [goodreads_id : Ids, status : Status, enriched : BOOLEAN]

\* A candidate of the run with the fields the run does not follow.
WithFields(b) ==
    [title |-> "Dune (Dune #1)", author |-> "Frank Herbert", num_pages |-> None,
     goodreads_id |-> b.goodreads_id, status |-> b.status, finish_date |-> None]

\* transform_book on a candidate of the run, matched or not.
transformed_row(b, matched) ==
    LET data == IF matched
                THEN Some(process_api_response(
                              [id |-> "gb-1", title |-> Some("Dune Deluxe"),
                               authors |-> None, pageCount |-> None,
                               categories |-> None],
                              clean_title(WithFields(b).title), WithFields(b).author))
                ELSE None
        built == transform_book(WithFields(b), data).book[1]
    IN [goodreads_id |-> built.goodreads_id, status |-> built.status,
        enriched |-> built.google_books_id # None]

\* ------------------------------------------------------ parse_goodreads_csv
required_columns == {"Title", "Author", "Book Id", "Exclusive Shelf", "Date Read"}

\* The fields of one data row that the parser reads, as csv.DictReader
\* hands them over.  Book_Id is written like a goodreads_id: 0 is the
\* empty field.  "  " is a field of blanks, "abandoned" a shelf that is none
\* of the three literals, "31 Jan 2024" a date that is not %Y/%m/%d.
AllRows ==
    [Title : {"Dune", "", "  "}, Author : {"Frank Herbert", ""},
     Book_Id : {1, 0}, Exclusive_Shelf : {"read", "abandoned"},
     Date_Read : {"2024/01/31", "", "31 Jan 2024"}]

\* The fields of a row that are not those of a complete row.
Defects(row) ==
    {f \in {"Title", "Author", "Book_Id", "Exclusive_Shelf", "Date_Read"} :
        \/ f = "Title" /\ row.Title # "Dune"
        \/ f = "Author" /\ row.Author = ""
        \/ f = "Book_Id" /\ row.Book_Id = 0
        \/ f = "Exclusive_Shelf" /\ row.Exclusive_Shelf = "abandoned"
        \/ f = "Date_Read" /\ row.Date_Read = "31 Jan 2024"}

\* The rows the model feeds the parser: complete rows and rows with one
\* defective field.
CSVRows == {row \in AllRows : Cardinality(Defects(row)) <= 1}

\* The file at file_path: missing, not readable, of zero length, or a CSV
\* file with a header line and data rows.
Sources ==
    {[kind |-> kd, header |-> required_columns, rows |-> <<>>] :
        kd \in {"missing", "unreadable", "empty"}}
    \cup {[kind |-> "csv", header |-> required_columns \ {column}, rows |-> <<>>] :
            column \in required_columns}
    \cup {[kind |-> "csv", header |-> required_columns, rows |-> rows] :
            rows \in SeqsUpTo(CSVRows, MaxRows)}

\* str.strip() on the field values of the model.
strip(field) == IF field = "  " THEN "" ELSE field

\* datetime.strptime(finish_date_str, "%Y/%m/%d").date(): the date, or the
\* ValueError of a string that does not match.
strptime(finish_date_str) ==
    IF finish_date_str = "2024/01/31"
    THEN [raised |-> "none", date |-> Some("2024-01-31")]
    ELSE [raised |-> "ValueError", date |-> None]

\* The body of `for row in reader`: book_dict is built first, so a date
\* that does not match raises ValueError before CSVBook(**book_dict) is
\* reached; CSVBook then raises ValidationError for a status that is none
\* of the literals and accepts any str, the empty one included, as title,
\* author and goodreads_id.  Only ValidationError is caught by the row's
\* except.
parse_row(row) ==
    LET finish_date_str == IF strip(row.Date_Read) = "" THEN None
                           ELSE Some(strip(row.Date_Read))
        finish_date == IF finish_date_str = None THEN [raised |-> "none", date |-> None]
                       ELSE strptime(finish_date_str[1])
    IN IF finish_date.raised # "none"
       THEN [outcome |-> finish_date.raised, book |-> None]
       ELSE IF strip(row.Exclusive_Shelf) \notin Status
       THEN [outcome |-> "ValidationError", book |-> None]
       ELSE [outcome |-> "ok",
             book |-> Some([title |-> strip(row.Title), author |-> strip(row.Author),
                            goodreads_id |-> row.Book_Id,
                            status |-> strip(row.Exclusive_Shelf),
                            finish_date |-> finish_date.date])]

\* `for row in reader`: a row that raised ValidationError is skipped, any
\* other exception leaves the loop and the function.
RECURSIVE parse_rows(_)
parse_rows(rows) ==
    IF rows = <<>>
    THEN [raised |-> "none", books |-> <<>>]
    ELSE LET first == parse_row(Head(rows))
         IN IF first.outcome \notin {"ok", "ValidationError"}
            THEN [raised |-> first.outcome, books |-> <<>>]
            ELSE LET rest == parse_rows(Tail(rows))
                 IN IF rest.raised # "none"
                    THEN rest
                    ELSE [raised |-> "none",
                          books |-> IF first.outcome = "ok"
                                    THEN <<first.book[1]>> \o rest.books
                                    ELSE rest.books]

\* A variant of the parser that returns no books for a file it cannot read.
parse_goodreads_csv_lenient(source) ==
    IF source.kind # "csv" \/ source.header # required_columns
    THEN [raised |-> "none", books |-> <<>>]
    ELSE parse_rows(source.rows)

\* What parse_goodreads_csv returns or raises: FileNotFoundError for a
\* missing file, the OSError of open() for an unreadable one, TypeError for
\* an empty one (reader.fieldnames is None), ValueError for a missing
\* required column, else what the row loop gives.
parse_goodreads_csv(source) ==
    CASE source.kind = "missing" -> [raised |-> "FileNotFoundError", books |-> <<>>]
      [] source.kind = "unreadable" -> [raised |-> "PermissionError", books |-> <<>>]
      [] source.kind = "empty" -> [raised |-> "TypeError", books |-> <<>>]
      [] OTHER -> IF \E column \in required_columns : column \notin source.header
                  THEN [raised |-> "ValueError", books |-> <<>>]
                  ELSE parse_rows(source.rows)

\* The parsed candidates as the passes of the run read them.
PassFields(parsed_books) ==
    [j \in 1..Len(parsed_books) |->
        [goodreads_id |-> parsed_books[j].goodreads_id,
         status |-> parsed_books[j].status]]

\* ------------------------------------------------------ ingest_books_to_db
\* Book(**book_create.model_dump()), reduced to the stored fields.
BookInstance(book_create) ==
    [goodreads_id |-> book_create.goodreads_id, status |-> book_create.status]

\* The UNIQUE constraint on books.goodreads_id, checked when the COMMIT
\* flushes the INSERTs: no two new rows and no new row and stored row share
\* a goodreads_id.
IntegrityOk(batch, store) ==
    /\ \A j, k \in 1..Len(batch) :
           batch[j].goodreads_id = batch[k].goodreads_id => j = k
    /\ AllIds(batch) \cap StoreIds(store) = {}

\* A variant of the insert without db.rollback(): the rows of a failing
\* batch that clash with nothing stay in the table.
ingest_books_to_db_no_rollback(batch, store, fault) ==
    IF fault = "commit" \/ ~IntegrityOk(batch, store)
    THEN Result("ingest",
                store \cup {BookInstance(batch[j]) :
                               j \in {m \in 1..Len(batch) :
                                         batch[m].goodreads_id \notin StoreIds(store)}},
                0, <<>>, 0, 0, "HTTPException", <<>>)
    ELSE Result("ingest", store \cup {BookInstance(batch[j]) : j \in 1..Len(batch)},
                Len(batch), [j \in 1..Len(batch) |-> batch[j].goodreads_id],
                1, 0, "none", <<>>)

\* Any exception is rolled back and re-raised as HTTPException(500).
ingest_books_to_db(batch, store, fault) ==
    IF fault = "commit" \/ ~IntegrityOk(batch, store)
    THEN Result("ingest", store, 0, <<>>, 0, 1, "HTTPException", <<>>)
    ELSE Result("ingest", store \cup {BookInstance(batch[j]) : j \in 1..Len(batch)},
                Len(batch), [j \in 1..Len(batch) |-> batch[j].goodreads_id],
                1, 0, "none", <<>>)

\* ---------------------------------------------------- get_google_books_data
\* What one httpx.get can come back with: 200 with items, 200 without, 429,
\* another status, or an exception raised by httpx itself.
Responses == {"200_items", "200_empty", "429", "500", "ConnectError"}

max_retries == 3

\* What the service answers to the successive attempts of one query.
Scripts == [1..max_retries -> Responses]

Tiers == <<"isbn_13", "isbn_10", "title_author">>

\* An ISBN of a candidate: "" stands for the absent and the empty one, both
\* falsy in `if isbn_13:`.
Isbn13s == {"", "9780000000001"}
Isbn10s == {"", "0000000001"}

HttpGet(query, response) ==
    [op |-> "get", query |-> query, response |-> response, seconds |-> 0]

TimeSleep(query, seconds) ==
    [op |-> "sleep", query |-> query, response |-> "", seconds |-> seconds]

\* A variant of the backoff that waits the same time before every retry.
wait_time_flat(attempt) == 2

\* wait_time = (2 ** attempt) * 2
wait_time(attempt) == (2 ^ attempt) * 2

\* A variant of the retry loop that raises once the retries are used up.
RECURSIVE api_attempts_raise_exhausted(_, _, _)
api_attempts_raise_exhausted(query, script, attempt) ==
    IF attempt >= max_retries
    THEN [data |-> "None", trace |-> <<>>]
    ELSE LET response == script[attempt + 1]
             get == <<HttpGet(query, response)>>
         IN CASE response = "ConnectError" -> [data |-> "raised", trace |-> get]
              [] response = "200_items" -> [data |-> "items", trace |-> get]
              [] response = "200_empty" -> [data |-> "None", trace |-> get]
              [] response = "429" ->
                    IF attempt < max_retries - 1
                    THEN LET rest == api_attempts_raise_exhausted(query, script,
                                                                   attempt + 1)
                         IN [data |-> rest.data,
                             trace |-> get \o <<TimeSleep(query, wait_time(attempt))>>
                                           \o rest.trace]
                    ELSE [data |-> "raised", trace |-> get]
              [] OTHER -> [data |-> "None", trace |-> get]

\* A variant of the retry loop without `if attempt < max_retries - 1`: it
\* sleeps after every 429, the last one included.
RECURSIVE api_attempts_sleep_after_last(_, _, _)
api_attempts_sleep_after_last(query, script, attempt) ==
    IF attempt >= max_retries
    THEN [data |-> "None", trace |-> <<>>]
    ELSE LET response == script[attempt + 1]
             get == <<HttpGet(query, response)>>
         IN CASE response = "ConnectError" -> [data |-> "raised", trace |-> get]
              [] response = "200_items" -> [data |-> "items", trace |-> get]
              [] response = "200_empty" -> [data |-> "None", trace |-> get]
              [] response = "429" ->
                    LET rest == api_attempts_sleep_after_last(query, script, attempt + 1)
                    IN [data |-> rest.data,
                        trace |-> get \o <<TimeSleep(query, wait_time(attempt))>>
                                      \o rest.trace]
              [] OTHER -> [data |-> "None", trace |-> get]

\* `for attempt in range(max_retries)` of call_google_books_api from the turn
\* `attempt` on: what it returns ("items" for the data with items, "None",
\* or "raised" when httpx.get raised) and the requests and sleeps it made.
RECURSIVE api_attempts(_, _, _)
api_attempts(query, script, attempt) ==
    IF attempt >= max_retries
    THEN [data |-> "None", trace |-> <<>>]
    ELSE LET response == script[attempt + 1]
             get == <<HttpGet(query, response)>>
         IN CASE response = "ConnectError" -> [data |-> "raised", trace |-> get]
              [] response = "200_items" -> [data |-> "items", trace |-> get]
              [] response = "200_empty" -> [data |-> "None", trace |-> get]
              [] response = "429" ->
                    IF attempt < max_retries - 1
                    THEN LET rest == api_attempts(query, script, attempt + 1)
                         IN [data |-> rest.data,
                             trace |-> get \o <<TimeSleep(query, wait_time(attempt))>>
                                           \o rest.trace]
                    ELSE [data |-> "None", trace |-> get]
              [] OTHER -> [data |-> "None", trace |-> get]

call_google_books_api_raise_exhausted(query, script) ==
    api_attempts_raise_exhausted(query, script, 0)

call_google_books_api(query, script) == api_attempts(query, script, 0)

\* A variant of the tier order that goes from ISBN-13 straight to
\* title/author.
tier_after_skip_isbn_10(t) ==
    CASE t = "isbn_13" -> "title_author"
      [] t = "isbn_10" -> "title_author"
      [] OTHER -> "returned"

\* The block that follows the block of tier t in get_google_books_data.
tier_after(t) ==
    CASE t = "isbn_13" -> "isbn_10"
      [] t = "isbn_10" -> "title_author"
      [] OTHER -> "returned"

\* What get_google_books_data has returned so far: nothing yet, None, the
\* processed first item of the tier that matched, or an exception.
Pending == [kind |-> "pending", via |-> ""]
ReturnedNone == [kind |-> "None", via |-> ""]
Raised == [kind |-> "raised", via |-> ""]
Matched(t) == [kind |-> "match", via |-> t]

\* ------------------------------------------------------- /books/{book_id}
\* Book.id, the primary key; a request can name one more id than the table
\* can hold, so that an id no row has always exists.
BookIds == 1..MaxId

RequestIds == 1..(MaxId + 1)

\* A stored row, reduced to the columns the by-id endpoints read or write.
BookById == [id : BookIds, status : Status]

StoresById == {t \in SUBSET BookById : \A r1, r2 \in t : r1.id = r2.id => r1 = r2}

\* db.query(Book).filter(Book.id == book_id).first(): the row, or None.
QueryById(store, book_id) ==
    IF \E r \in store : r.id = book_id
    THEN Some(CHOOSE r \in store : r.id = book_id)
    ELSE None

\* What is raised inside the try block of an endpoint.
HTTPException(status_code) == [class |-> "HTTPException", status_code |-> status_code]

SQLAlchemyError == [class |-> "SQLAlchemyError", status_code |-> 0]

\* The status code the client gets when e reaches the except clauses: an
\* HTTPException is raised again unchanged, anything else becomes a 500.
endpoint_exception_handler(e) ==
    IF e.class = "HTTPException" THEN e.status_code ELSE 500

\* What one call of an endpoint leaves behind: the committed store, the
\* status code of the response, and the id and fault it was called with.
Response(op, store, status_code, book_id, fault) ==
    [op |-> op, store |-> store, status_code |-> status_code, book_id |-> book_id,
     fault |-> fault]

get_book_by_id(book_id, store, fault) ==
    LET book == QueryById(store, book_id)
    IN IF fault = "query"
       THEN Response("get_book_by_id", store,
                     endpoint_exception_handler(SQLAlchemyError), book_id, fault)
       ELSE IF book # None
       THEN Response("get_book_by_id", store, 200, book_id, fault)
       ELSE Response("get_book_by_id", store,
                     endpoint_exception_handler(HTTPException(404)), book_id, fault)

delete_book_by_id(book_id, store, fault) ==
    LET book == QueryById(store, book_id)
    IN IF fault = "query"
       THEN Response("delete_book_by_id", store,
                     endpoint_exception_handler(SQLAlchemyError), book_id, fault)
       ELSE IF book # None
       THEN IF fault = "commit"
            THEN Response("delete_book_by_id", store,
                          endpoint_exception_handler(SQLAlchemyError), book_id, fault)
            ELSE Response("delete_book_by_id", store \ {book[1]}, 204, book_id, fault)
       ELSE Response("delete_book_by_id", store,
                     endpoint_exception_handler(HTTPException(404)), book_id, fault)

\* `if book:` has no else: for an id no row has, the function returns None
\* and the route answers with its status_code=204.
update_book_by_id(book_id, new_status, store, fault) ==
    LET book == QueryById(store, book_id)
    IN IF fault = "query"
       THEN Response("update_book_by_id", store,
                     endpoint_exception_handler(SQLAlchemyError), book_id, fault)
       ELSE IF book # None
       THEN IF fault = "commit"
            THEN Response("update_book_by_id", store,
                          endpoint_exception_handler(SQLAlchemyError), book_id, fault)
            ELSE Response("update_book_by_id",
                          (store \ {book[1]}) \cup {[book[1] EXCEPT !.status = new_status]},
                          204, book_id, fault)
       ELSE Response("update_book_by_id", store, 204, book_id, fault)

\* ---------------------------------------------------- orchestrate_csv_to_db
\* batch_size: 100 in the source; the model scales it down so that a run of
\* a few records is split over more than one batch.
batch_size == 1

\* A variant of the run that swallows a pass's exception and goes on.
AfterPassSwallowed(raised, next_pc) == next_pc

\* The passes are called with no try/except around them: an exception
\* leaving a pass leaves orchestrate_csv_to_db, a normal return goes on.

AfterPass(raised, next_pc) == IF raised = "none" THEN next_pc ELSE "aborted"

\* A variant of the run that looks for the new records before it deletes.
pass_after_dedup_first(at) ==
    CASE at = "update" -> "dedup"
      [] at = "dedup" -> "delete"
      [] OTHER -> "process"

\* The statement that follows a pass inside the `with` block: update_books,
\* delete_books, deduplicate_books, then the record loop.
pass_after(at) ==
    CASE at = "update" -> "delete"
      [] at = "delete" -> "dedup"
      [] OTHER -> "process"

\* A variant of the session's scope that releases it on the normal return
\* only, as a bare db = SessionLocal() ... db.close() would.
with_exit_on_return_only(at, db) == IF at = "done" THEN "closed" ELSE db

\* `with SessionLocal() as db`: the session is closed when control leaves
\* the block, by its end or by an exception.
with_exit(at, db) == IF at \in {"done", "aborted"} THEN "closed" ELSE db

\* A variant of the insert loop that hands over the whole list every turn.
BatchWholeList(transformed, k) == transformed

\* transformed_books[i:i+batch_size], 1-based.
Batch(transformed, k) ==
    SubSeq(transformed, k, IF k + batch_size - 1 < Len(transformed)
                           THEN k + batch_size - 1 ELSE Len(transformed))

RECURSIVE SeqToSet(_)
SeqToSet(q) == IF q = <<>> THEN {} ELSE {Head(q)} \cup SeqToSet(Tail(q))

\* ================================================================== state
VARIABLES
    store,      \* committed rows of the books table
    books,      \* the list[CSVBook] handed to the passes / parsed by the run
    res,        \* Result of the last pass called
    before,     \* the store when the last pass was called
    ncalls,     \* passes called so far through the API
    pc,         \* where orchestrate_csv_to_db stands
    session,    \* the run's SessionLocal(): "none", "open" or "closed"
    store0,     \* the store when the run opened its session
    updated_ids,        \* goodreads_ids whose status the update pass committed
    deleted_ids,        \* goodreads_ids whose row the delete pass committed away
    new_books,          \* what deduplicate_books returned
    transformed_books,  \* BookCreate records built so far
    failed_books,       \* candidates whose enrichment or merge raised
    i,          \* 1-based position in new_books of the next record to enrich
    k,          \* 1-based position in transformed_books of the next batch
    log,        \* the run's steps in order, each [op, raised]
    error,      \* the exception that left orchestrate_csv_to_db, or "none"
    isbn_13,    \* the isbn_13 get_google_books_data was called with
    isbn_10,    \* the isbn_10 get_google_books_data was called with
    tier,       \* the block get_google_books_data stands at, "none" outside it
    trace,      \* its requests and sleeps in order
    google_books_data,  \* what it has returned
    csv_book,           \* the candidate handed to the merge
    first_result,       \* the first item of the response that matched, or None
    enriched_book,      \* what get_google_books_data returned for it
    transformed_book,   \* what transform_book returned or raised
    merge_pc,           \* where the enrich-and-merge of csv_book stands
    source,             \* the file at csv_file_path
    parsed,             \* what parse_goodreads_csv returned or raised for it
    reparsed,           \* the same for a second call on the same file
    earlier_transformed,    \* transformed_books of the run that returned before
    earlier_failed          \* failed_books of the run that returned before

runvars == <<pc, session, store0, updated_ids, deleted_ids, new_books,
             transformed_books, failed_books, i, k, log, error>>

enrichvars == <<isbn_13, isbn_10, tier, trace, google_books_data>>

mergevars == <<csv_book, first_result, enriched_book, transformed_book, merge_pc>>

parsevars == <<source, parsed, reparsed>>

earliervars == <<earlier_transformed, earlier_failed>>
auxvars == <<enrichvars, mergevars, parsevars, earliervars>>

vars == <<store, books, res, before, ncalls, runvars, auxvars>>

\* No get_google_books_data call is being followed.
EnrichIdle ==
    /\ isbn_13 = ""
    /\ isbn_10 = ""
    /\ tier = "none"
    /\ trace = <<>>
    /\ google_books_data = Pending

\* No candidate is being merged on its own.
MergeIdle ==
    /\ csv_book = None
    /\ first_result = None
    /\ enriched_book = None
    /\ transformed_book = [raised |-> "none", book |-> None]
    /\ merge_pc = "none"

\* parse_goodreads_csv has not been called on a file of the model.
NotParsed == [raised |-> "pending", books |-> <<>>]

ParseIdle ==
    /\ source = [kind |-> "none", header |-> {}, rows |-> <<>>]
    /\ parsed = NotParsed
    /\ reparsed = NotParsed

\* No run of orchestrate_csv_to_db has returned before.
NoEarlierRun ==
    /\ earlier_transformed = <<>>
    /\ earlier_failed = <<>>

RunIdle ==
    /\ pc = "parse"
    /\ session = "none"
    /\ store0 = {}
    /\ updated_ids = {}
    /\ deleted_ids = {}
    /\ new_books = <<>>
    /\ transformed_books = <<>>
    /\ failed_books = <<>>
    /\ i = 1
    /\ k = 1
    /\ log = <<>>
    /\ error = "none"

NoResult == Result("none", {}, 0, <<>>, 0, 0, "none", <<>>)

\* ------------------------------------------------- the passes, one by one
\* The passes as the API endpoints /books/batch-update and
\* /books/delta-delete (and the dedup script) call them: on any stored
\* table, with any list of CSVBook.
InitPass ==
    /\ store \in Stores
    /\ books \in BookSeqs
    /\ res = NoResult
    /\ before = {}
    /\ ncalls = 0
    /\ RunIdle
    /\ EnrichIdle
    /\ MergeIdle
    /\ ParseIdle
    /\ NoEarlierRun

Call(r) ==
    /\ ncalls < MaxCalls
    /\ ncalls' = ncalls + 1
    /\ before' = store
    /\ res' = r
    /\ store' = r.store
    /\ UNCHANGED <<books, runvars, auxvars>>

CallUpdate == \E fault \in Faults : Call(update_books(books, store, fault))

CallDelete == \E fault \in Faults : Call(delete_books(books, store, fault))

CallDedup == \E fault \in {"none", "query"} : Call(deduplicate_books(books, store, fault))

\* The update pass alone, on rows that carry a further column.
InitUpdate ==
    /\ store \in StoresWithTitle
    /\ books \in BookSeqs
    /\ res = NoResult
    /\ before = {}
    /\ ncalls = 0
    /\ RunIdle
    /\ EnrichIdle
    /\ MergeIdle
    /\ ParseIdle
    /\ NoEarlierRun

NextUpdate == CallUpdate

SpecUpdate == InitUpdate /\ [][NextUpdate]_vars

\* The endpoints /books/{book_id}, called one at a time on any table.
InitById ==
    /\ store \in StoresById
    /\ books = <<>>
    /\ res = NoResult
    /\ before = {}
    /\ ncalls = 0
    /\ RunIdle
    /\ EnrichIdle
    /\ MergeIdle
    /\ ParseIdle
    /\ NoEarlierRun

CallGetById ==
    \E book_id \in RequestIds, fault \in {"none", "query"} :
        Call(get_book_by_id(book_id, store, fault))

CallDeleteById ==
    \E book_id \in RequestIds, fault \in Faults :
        Call(delete_book_by_id(book_id, store, fault))

CallUpdateById ==
    \E book_id \in RequestIds, new_status \in Status, fault \in Faults :
        Call(update_book_by_id(book_id, new_status, store, fault))

NextById == CallGetById \/ CallDeleteById \/ CallUpdateById

SpecById == InitById /\ [][NextById]_vars

\* The update pass and the delete pass, each called once and without fault
\* on the same list, in either order; log keeps the count each returned.
InitOrder ==
    /\ store \in Stores
    /\ books \in BookSeqs
    /\ res = NoResult
    /\ before = {}
    /\ ncalls = 0
    /\ pc = "parse"
    /\ session = "none"
    /\ store0 = store
    /\ updated_ids = {}
    /\ deleted_ids = {}
    /\ new_books = <<>>
    /\ transformed_books = <<>>
    /\ failed_books = <<>>
    /\ i = 1
    /\ k = 1
    /\ log = <<>>
    /\ error = "none"
    /\ EnrichIdle
    /\ MergeIdle
    /\ ParseIdle
    /\ NoEarlierRun

CallOnce(r) ==
    /\ \A p \in 1..Len(log) : log[p].op # r.op
    /\ res' = r
    /\ before' = store
    /\ store' = r.store
    /\ ncalls' = ncalls + 1
    /\ log' = Append(log, [op |-> r.op, count |-> r.count])
    /\ UNCHANGED <<books, pc, session, store0, updated_ids, deleted_ids, new_books,
                   transformed_books, failed_books, i, k, error>>
    /\ UNCHANGED auxvars

UpdateOnce == CallOnce(update_books(books, store, "none"))

DeleteOnce == CallOnce(delete_books(books, store, "none"))

NextOrder == UpdateOnce \/ DeleteOnce

SpecOrder == InitOrder /\ [][NextOrder]_vars

NextPass == CallUpdate \/ CallDelete \/ CallDedup

SpecPass == InitPass /\ [][NextPass]_vars

\* ------------------------------------------------ one orchestrate_csv_to_db
Event(op, raised) == [op |-> op, raised |-> raised]

Init ==
    /\ store \in Stores
    /\ books = <<>>
    /\ res = NoResult
    /\ before = {}
    /\ ncalls = 0
    /\ RunIdle
    /\ EnrichIdle
    /\ MergeIdle
    /\ ParseIdle
    /\ NoEarlierRun

\* parse_goodreads_csv returns the candidates; the session is opened next.
Parse ==
    /\ pc = "parse"
    /\ \E candidates \in BookSeqs : books' = candidates
    /\ pc' = "update"
    /\ session' = "open"
    /\ store0' = store
    /\ log' = Append(log, Event("parse", "none"))
    /\ UNCHANGED <<store, res, before, ncalls, updated_ids, deleted_ids, new_books,
                   transformed_books, failed_books, i, k, error>>
    /\ UNCHANGED auxvars

\* parse_goodreads_csv raises (missing file, missing column, unreadable
\* source): the run ends before SessionLocal() is reached.
ParseFails ==
    /\ pc = "parse"
    /\ pc' = "aborted"
    /\ error' = "FormatError"
    /\ log' = Append(log, Event("parse", "FormatError"))
    /\ UNCHANGED <<store, books, res, before, ncalls, session, store0, updated_ids,
                   deleted_ids, new_books, transformed_books, failed_books, i, k>>
    /\ UNCHANGED auxvars

\* One pass of the run: r is its Result.  An exception leaves the `with`
\* block, which closes the session.
Pass(r, next_pc) ==
    /\ res' = r
    /\ before' = store
    /\ store' = r.store
    /\ pc' = AfterPass(r.raised, next_pc)
    /\ error' = IF pc' = "aborted" THEN r.raised ELSE error
    /\ session' = with_exit(pc', session)
    /\ log' = Append(log, Event(r.op, r.raised))

RunUpdate ==
    /\ pc = "update"
    /\ \E fault \in Faults :
           LET r == update_books(books, store, fault)
           IN /\ Pass(r, pass_after("update"))
              /\ updated_ids' = IF r.raised = "none" THEN SeqToSet(r.written) ELSE {}
    /\ UNCHANGED <<books, ncalls, store0, deleted_ids, new_books, transformed_books,
                   failed_books, i, k>>
    /\ UNCHANGED auxvars

RunDelete ==
    /\ pc = "delete"
    /\ \E fault \in Faults :
           LET r == delete_books(books, store, fault)
           IN /\ Pass(r, pass_after("delete"))
              /\ deleted_ids' = IF r.raised = "none" THEN SeqToSet(r.written) ELSE {}
    /\ UNCHANGED <<books, ncalls, store0, updated_ids, new_books, transformed_books,
                   failed_books, i, k>>
    /\ UNCHANGED auxvars

RunDedup ==
    /\ pc = "dedup"
    /\ \E fault \in {"none", "query"} :
           LET r == deduplicate_books(books, store, fault)
           IN /\ Pass(r, pass_after("dedup"))
              /\ new_books' = r.new_books
    /\ UNCHANGED <<books, ncalls, store0, updated_ids, deleted_ids, transformed_books,
                   failed_books, i, k>>
    /\ UNCHANGED auxvars

\* A variant of the loop with no `except Exception` around a record: the
\* record's exception leaves the run.
OnRecordExceptionRaise(at) == "aborted"

\* `except Exception`: the record goes to failed_books and the loop goes on
\* from where it stands.
OnRecordException(at) == at

\* One turn of `for i, book in enumerate(new_books, 1)`.  get_google_books_data
\* returns a match, returns None, or raises; transform_book can raise too.
\* The sleep sits inside the try, after the append.
RecordTurn(outcome) ==
    /\ IF outcome = "raise"
       THEN /\ failed_books' = Append(failed_books, new_books[i])
            /\ log' = Append(log, Event("enrich", "Exception"))
            /\ pc' = OnRecordException(pc)
            /\ UNCHANGED transformed_books
       ELSE /\ transformed_books' =
                   Append(transformed_books,
                          transformed_row(new_books[i], outcome = "match"))
            /\ log' = IF i < Len(new_books)
                      THEN log \o <<Event("enrich", "none"), Event("sleep", "none")>>
                      ELSE Append(log, Event("enrich", "none"))
            /\ UNCHANGED <<failed_books, pc>>
    /\ i' = i + 1
    /\ UNCHANGED <<store, books, res, before, ncalls, session, store0, updated_ids,
                   deleted_ids, new_books, k, error>>

\* The turn as one step, whatever the lookup did.
EnrichOne ==
    /\ pc = "process"
    /\ i <= Len(new_books)
    /\ tier = "none"
    /\ \E outcome \in {"match", "no_match", "raise"} : RecordTurn(outcome)
    /\ UNCHANGED auxvars

\* One turn of `for i in range(0, len(transformed_books), batch_size)`.
InsertBatch ==
    /\ pc = "process"
    /\ i > Len(new_books)
    /\ k <= Len(transformed_books)
    /\ \E fault \in {"none", "commit"} :
           Pass(ingest_books_to_db(Batch(transformed_books, k), store, fault), "process")
    /\ k' = k + batch_size
    /\ UNCHANGED <<books, ncalls, store0, updated_ids, deleted_ids, new_books,
                   transformed_books, failed_books, i>>
    /\ UNCHANGED auxvars

\* The loops are over: the summary is logged, the `with` block closes the
\* session and orchestrate_csv_to_db returns None.
Finish ==
    /\ pc = "process"
    /\ i > Len(new_books)
    /\ k > Len(transformed_books)
    /\ pc' = "done"
    /\ session' = with_exit(pc', session)
    /\ log' = Append(log, Event("return", "none"))
    /\ UNCHANGED <<store, books, res, before, ncalls, store0, updated_ids, deleted_ids,
                   new_books, transformed_books, failed_books, i, k, error>>
    /\ UNCHANGED auxvars

Next ==
    \/ Parse
    \/ ParseFails
    \/ RunUpdate
    \/ RunDelete
    \/ RunDedup
    \/ EnrichOne
    \/ InsertBatch
    \/ Finish

Spec == Init /\ [][Next]_vars

\* ------------------------------------------ a second orchestrate_csv_to_db
\* After a run that returned, orchestrate_csv_to_db is called again on the
\* same file: the parser returns the same candidates, a new session is
\* opened, and the locals of the function start anew.  ncalls counts the
\* runs that returned before; log goes on after the "return" of the first.
Rerun ==
    /\ pc = "done"
    /\ ncalls = 0
    /\ ncalls' = 1
    /\ pc' = "update"
    /\ session' = "open"
    /\ store0' = store
    /\ res' = NoResult
    /\ before' = {}
    /\ updated_ids' = {}
    /\ deleted_ids' = {}
    /\ new_books' = <<>>
    /\ transformed_books' = <<>>
    /\ failed_books' = <<>>
    /\ i' = 1
    /\ k' = 1
    /\ log' = Append(log, Event("parse", "none"))
    /\ earlier_transformed' = transformed_books
    /\ earlier_failed' = failed_books
    /\ UNCHANGED <<store, books, error>>
    /\ UNCHANGED <<enrichvars, mergevars, parsevars>>

NextRerun == Next \/ Rerun

SpecRerun == Init /\ [][NextRerun]_vars

\* ------------------------------------- one new record, request by request
\* The run on an empty table with one parsed record, which is new, at the
\* point where the loop calls get_google_books_data for it.
InitEnrich ==
    /\ store = {}
    /\ \E b \in CSVBook :
           /\ books = <<b>>
           /\ new_books = <<b>>
           /\ res = deduplicate_books(<<b>>, {}, "none")
    /\ before = {}
    /\ ncalls = 0
    /\ pc = "process"
    /\ session = "open"
    /\ store0 = {}
    /\ updated_ids = {}
    /\ deleted_ids = {}
    /\ transformed_books = <<>>
    /\ failed_books = <<>>
    /\ i = 1
    /\ k = 1
    /\ log = <<Event("parse", "none"), Event("update", "none"),
               Event("delete", "none"), Event("dedup", "none")>>
    /\ error = "none"
    /\ isbn_13 \in Isbn13s
    /\ isbn_10 \in Isbn10s
    /\ tier = Tiers[1]
    /\ trace = <<>>
    /\ google_books_data = Pending
    /\ MergeIdle
    /\ ParseIdle
    /\ NoEarlierRun

\* f"isbn:{isbn_13}", f"isbn:{isbn_10}", f"intitle:{title}+inauthor:{author}"
Query(t) ==
    CASE t = "isbn_13" -> [by |-> "isbn", q |-> isbn_13]
      [] t = "isbn_10" -> [by |-> "isbn", q |-> isbn_10]
      [] OTHER -> [by |-> "intitle+inauthor", q |-> "title+author"]

\* `if isbn_13:`, `if isbn_10:`; the title/author block has no condition.
Applicable(t) ==
    CASE t = "isbn_13" -> isbn_13 # ""
      [] t = "isbn_10" -> isbn_10 # ""
      [] OTHER -> TRUE

\* One block of get_google_books_data: the tier's query is sent (with its
\* retries) when the tier applies; items end the call with the processed
\* first item, an exception of httpx leaves the call, anything else falls
\* to the next block, and past the last block the call returns None.
TryTier(t) ==
    /\ pc = "process"
    /\ i <= Len(new_books)
    /\ tier = t
    /\ IF Applicable(t)
       THEN \E script \in Scripts :
                LET result == call_google_books_api(Query(t), script)
                IN /\ trace' = trace \o result.trace
                   /\ CASE result.data = "items" ->
                              /\ google_books_data' = Matched(t)
                              /\ tier' = "returned"
                        [] result.data = "raised" ->
                              /\ google_books_data' = Raised
                              /\ tier' = "raised"
                        [] OTHER ->
                              /\ tier' = tier_after(t)
                              /\ google_books_data' =
                                     IF tier' = "returned" THEN ReturnedNone
                                     ELSE google_books_data
       ELSE /\ tier' = tier_after(t)
            /\ UNCHANGED <<trace, google_books_data>>
    /\ UNCHANGED <<isbn_13, isbn_10, mergevars, parsevars, earliervars>>
    /\ UNCHANGED <<store, books, res, before, ncalls, runvars>>

TryIsbn13 ==
    /\ tier = "isbn_13"
    /\ TryTier("isbn_13")

TryIsbn10 ==
    /\ tier = "isbn_10"
    /\ TryTier("isbn_10")

TryTitleAuthor ==
    /\ tier = "title_author"
    /\ TryTier("title_author")

\* The rest of the record's turn once get_google_books_data is over:
\* transform_book and the append, or the except branch.
MergeOne ==
    /\ pc = "process"
    /\ i <= Len(new_books)
    /\ tier \in {"returned", "raised"}
    /\ RecordTurn(CASE google_books_data.kind = "match" -> "match"
                    [] google_books_data.kind = "None" -> "no_match"
                    [] OTHER -> "raise")
    /\ tier' = "none"
    /\ UNCHANGED <<isbn_13, isbn_10, trace, google_books_data, mergevars, parsevars, earliervars>>

NextEnrich ==
    \/ TryIsbn13
    \/ TryIsbn10
    \/ TryTitleAuthor
    \/ MergeOne
    \/ InsertBatch
    \/ Finish

SpecEnrich == InitEnrich /\ [][NextEnrich]_vars

\* --------------------------------------- one candidate, enriched and merged
\* A candidate as the parser can produce it, and what the lookup found for
\* it: the first item of the matching response, or nothing.
InitMerge ==
    /\ store = {}
    /\ books = <<>>
    /\ res = NoResult
    /\ before = {}
    /\ ncalls = 0
    /\ RunIdle
    /\ EnrichIdle
    /\ csv_book \in CSVBookFields
    /\ first_result \in Optional(FirstResults)
    /\ enriched_book = None
    /\ transformed_book = [raised |-> "none", book |-> None]
    /\ merge_pc = "enrich"
    /\ ParseIdle
    /\ NoEarlierRun

\* enriched_book = get_google_books_data(clean_title, book.author, ...):
\* the processed first item, or None.
GetGoogleBooksData ==
    /\ merge_pc = "enrich"
    /\ enriched_book' =
           IF first_result = None
           THEN None
           ELSE Some(process_api_response(first_result[1], clean_title(csv_book.title),
                                          csv_book.author))
    /\ merge_pc' = "transform"
    /\ UNCHANGED <<csv_book, first_result, transformed_book>>
    /\ UNCHANGED <<store, books, res, before, ncalls, runvars, enrichvars, parsevars, earliervars>>

\* transformed_book = transform_book(book, enriched_book)
TransformBook ==
    /\ merge_pc = "transform"
    /\ transformed_book' = transform_book(csv_book, enriched_book)
    /\ merge_pc' = "done"
    /\ UNCHANGED <<csv_book, first_result, enriched_book>>
    /\ UNCHANGED <<store, books, res, before, ncalls, runvars, enrichvars, parsevars, earliervars>>

NextMerge == GetGoogleBooksData \/ TransformBook

SpecMerge == InitMerge /\ [][NextMerge]_vars

\* ------------------------------------------- the file, parsed row by row
\* A run on a file of the model, up to its first pass; the table holds at
\* most one row.
InitParse ==
    /\ store \in {t \in Stores : Cardinality(t) <= 1}
    /\ books = <<>>
    /\ res = NoResult
    /\ before = {}
    /\ ncalls = 0
    /\ RunIdle
    /\ EnrichIdle
    /\ MergeIdle
    /\ source \in Sources
    /\ parsed = NotParsed
    /\ reparsed = NotParsed
    /\ NoEarlierRun

\* books = parse_goodreads_csv(csv_file_path): an exception leaves the run
\* before `with SessionLocal() as db` is reached, a return is followed by
\* the opening of the session.
ParseSource ==
    /\ pc = "parse"
    /\ LET result == parse_goodreads_csv(source)
       IN /\ parsed' = result
          /\ books' = PassFields(result.books)
          /\ pc' = AfterPass(result.raised, "update")
          /\ session' = IF pc' = "aborted" THEN session ELSE "open"
          /\ store0' = IF pc' = "aborted" THEN store0 ELSE store
          /\ error' = IF pc' = "aborted" THEN result.raised ELSE error
          /\ log' = Append(log, Event("parse", result.raised))
    /\ UNCHANGED <<store, res, before, ncalls, updated_ids, deleted_ids, new_books,
                   transformed_books, failed_books, i, k>>
    /\ UNCHANGED <<enrichvars, mergevars, source, reparsed, earliervars>>

\* parse_goodreads_csv called once more on the same file.
ParseAgain ==
    /\ parsed # NotParsed
    /\ reparsed = NotParsed
    /\ reparsed' = parse_goodreads_csv(source)
    /\ UNCHANGED <<store, books, res, before, ncalls, runvars>>
    /\ UNCHANGED <<enrichvars, mergevars, source, parsed, earliervars>>

NextParse == ParseSource \/ ParseAgain \/ RunUpdate

SpecParse == InitParse /\ [][NextParse]_vars

\* ================================================================= claims

\* ---- C1 ----------------------------------------------------------------
\* C1 as stated: after orchestrate_csv_to_db returns normally, the
\* goodreads_ids in the store are exactly the goodreads_ids of the parsed
\* candidates, whatever the store held and however the enrichment calls
\* ended.
C1_StoreIdsEqualIncoming ==
    pc = "done" => StoreIds(store) = AllIds(books)

\* C1 amended: after a normal return on a non-empty parsed list, the
\* goodreads_ids in the store are those of the candidates that were not in
\* the new set together with those of the new records that were transformed
\* (a new record whose enrichment or merge failed is not stored); after a
\* normal return on an empty parsed list the store is what it was.
C1_StoreIdsAfterRun ==
    pc = "done" =>
        IF books = <<>>
        THEN store = store0
        ELSE StoreIds(store) =
                 (AllIds(books) \ AllIds(new_books)) \cup AllIds(transformed_books)

\* A normal return of a run that deleted a row, stored a new record and
\* dropped a failed one.
C1_Witness ==
    /\ pc = "done"
    /\ deleted_ids # {}
    /\ failed_books # <<>>
    /\ transformed_books # <<>>

C3_DeleteExactlyAbsent ==
    (res.op = "delete" /\ books # <<>> /\ res.raised = "none") =>
        /\ store = {r \in before : r.goodreads_id \in AllIds(books)}
        /\ res.count = Cardinality(before \ store)

\* ---- C4 ----------------------------------------------------------------
\* C4: after update_books completes without fault, every stored row whose
\* goodreads_id appears in the incoming list has a status the incoming list
\* gives for that id, and the pass committed at most once.
C4_UpdatedToIncomingStatus ==
    (res.op = "update" /\ res.raised = "none") =>
        /\ \A r \in store :
               r.goodreads_id \in AllIds(books) =>
                   \E j \in 1..Len(books) :
                       /\ books[j].goodreads_id = r.goodreads_id
                       /\ books[j].status = r.status
        /\ res.commits <= 1

\* ---- C5 ----------------------------------------------------------------
\* C5: the count update_books returns is the number of stored rows whose
\* status the pass changed.
C5_CountIsRowsChanged ==
    (res.op = "update" /\ res.raised = "none") =>
        res.count = Cardinality(before \ store)

\* ---- C6 ----------------------------------------------------------------
\* A row is written only if its stored status differs from an incoming
\* status for its goodreads_id.
C6_WritesOnlyDiffering ==
    res.op = "update" =>
        \A n \in 1..Len(res.written) :
            \E r \in before, j \in 1..Len(books) :
                /\ r.goodreads_id = res.written[n]
                /\ books[j].goodreads_id = r.goodreads_id
                /\ books[j].status # r.status

\* When no stored status differs from the incoming one, nothing is written
\* or committed and 0 is returned.
C6_NoDifferenceNoWrite ==
    (/\ res.op = "update"
     /\ \A r \in before, j \in 1..Len(books) :
            books[j].goodreads_id = r.goodreads_id => books[j].status = r.status)
    => (res.written = <<>> /\ res.commits = 0 /\ res.count = 0)

\* C6: update_books writes only rows whose stored status differs from the
\* incoming status, writes and commits nothing and returns 0 when none
\* differs, and writes nothing when it is called a second time with the
\* same list right after a call that completed.
C6_UpdateIdempotent ==
    [][(ncalls' = ncalls + 1 /\ res'.op = "update") =>
          /\ C6_WritesOnlyDiffering'
          /\ C6_NoDifferenceNoWrite'
          /\ (res.op = "update" /\ res.raised = "none") => res'.written = <<>>]_vars

\* ---- C7 ----------------------------------------------------------------
\* C7: deduplicate_books returns exactly the incoming candidates whose
\* goodreads_id is not in the store, in their original order.
C7_NewAreExactlyUnstored ==
    (res.op = "dedup" /\ res.raised = "none") =>
        res.new_books =
            SelectSeq(books, LAMBDA b : b.goodreads_id \notin StoreIds(before))

\* ---- C8 ----------------------------------------------------------------
\* C8: in one run no goodreads_id is in two of: the new set, the rows whose
\* status was updated, the rows deleted.
C8_ThreeSetsDisjoint ==
    pc \in {"process", "done"} =>
        /\ AllIds(new_books) \cap updated_ids = {}
        /\ deleted_ids \cap updated_ids = {}
        /\ deleted_ids \cap AllIds(new_books) = {}

\* ---- C9 ----------------------------------------------------------------
\* C9: a store fault in the update pass or in the delete pass leaves
\* orchestrate_csv_to_db as that exception and is the run's last step: no
\* pass, no enrichment call and no insert follows it.
C9_StoreFaultAborts ==
    \A n \in 1..Len(log) :
        (log[n].op \in {"update", "delete"} /\ log[n].raised # "none") =>
            /\ n = Len(log)
            /\ pc = "aborted"
            /\ error = log[n].raised
            /\ new_books = <<>>
            /\ transformed_books = <<>>
            /\ failed_books = <<>>
            /\ res.op = log[n].op

\* The delete pass faulted after the update pass had completed.
C9_Witness ==
    /\ pc = "aborted"
    /\ Len(log) = 3
    /\ log[2] = Event("update", "none")
    /\ log[3] = Event("delete", "SQLAlchemyError")

\* ---- C10 ---------------------------------------------------------------
\* C10: when the update pass or the delete pass faults, the pass is rolled
\* back and the committed store is what it was when that pass began; what
\* the update pass committed before a faulting delete pass remains (every
\* row with a non-empty incoming goodreads_id has the status of that id's
\* last incoming record, every other row is as the run found it).
C10_FaultRollsBackPass ==
    (res.op \in {"update", "delete"} /\ res.raised # "none") =>
        /\ store = before
        /\ res.rollbacks = 1
        /\ res.commits = 0
        /\ res.op = "update" => store = store0
        /\ res.op = "delete" =>
               /\ StoreIds(store) = StoreIds(store0)
               /\ \A r \in store :
                      LET at == {j \in 1..Len(books) :
                                    books[j].goodreads_id = r.goodreads_id}
                      IN IF Truthy(r.goodreads_id) /\ at # {}
                         THEN r.status =
                                  books[CHOOSE j \in at : \A m \in at : m <= j].status
                         ELSE r \in store0

\* The delete pass faulted at its COMMIT with deletes pending, after the
\* update pass had committed a status change.
C10_Witness ==
    /\ pc = "aborted"
    /\ res.op = "delete"
    /\ res.raised = "SQLAlchemyError"
    /\ res.written # <<>>
    /\ updated_ids # {}

\* ---- the claims above that fail, away from what makes them fail ---------
\* No incoming record has the empty goodreads_id.
NoEmptyIds == \A j \in 1..Len(books) : Truthy(books[j].goodreads_id)

\* No goodreads_id occurs twice in the incoming list.
NoDuplicateIds ==
    \A j, m \in 1..Len(books) : books[j].goodreads_id = books[m].goodreads_id => j = m

\* C3, C4, C7 and C8 hold of every list without an empty goodreads_id.
C3_HoldsWithoutEmptyIds == NoEmptyIds => C3_DeleteExactlyAbsent

C4_HoldsWithoutEmptyIds == NoEmptyIds => C4_UpdatedToIncomingStatus

C7_HoldsWithoutEmptyIds == NoEmptyIds => C7_NewAreExactlyUnstored

C8_HoldsWithoutEmptyIds == NoEmptyIds => C8_ThreeSetsDisjoint

\* C5 and C6 hold of every list without a repeated goodreads_id.
C5_HoldsWithoutDuplicates == NoDuplicateIds => C5_CountIsRowsChanged

C6_HoldsWithoutDuplicates ==
    [][(NoDuplicateIds /\ ncalls' = ncalls + 1 /\ res'.op = "update") =>
          /\ C6_WritesOnlyDiffering'
          /\ C6_NoDifferenceNoWrite'
          /\ (res.op = "update" /\ res.raised = "none") => res'.written = <<>>]_vars

\* ---- C11 ---------------------------------------------------------------
\* The insert steps of the run and what they are about.
InsertPhase ==
    /\ pc = "process"
    /\ i > Len(new_books)
    /\ k <= Len(transformed_books)

IngestEvents == Len(SelectSeq(log, LAMBDA ev : ev.op = "ingest"))

\* C11: the merged records are inserted in consecutive batches of at most
\* batch_size records in list order, each batch committed on its own: the
\* batch a step inserts is the next batch_size records after the ones already
\* persisted (fewer at the end of the list); when it succeeds exactly its
\* rows are added under one commit; when it fails the store stays as it was,
\* so the earlier batches stay persisted and no record of this batch is, and
\* the run ends there with no later batch attempted.
C11_BatchesCommitOnTheirOwn ==
    [][ /\ pc # "aborted"
        /\ InsertPhase =>
              LET hi == IF k + batch_size - 1 < Len(transformed_books)
                        THEN k + batch_size - 1 ELSE Len(transformed_books)
                  rows == {[goodreads_id |-> transformed_books[j].goodreads_id,
                            status |-> transformed_books[j].status] : j \in k..hi}
                  earlier == {[goodreads_id |-> transformed_books[j].goodreads_id,
                               status |-> transformed_books[j].status] : j \in 1..(k - 1)}
              IN /\ k = 1 + batch_size * IngestEvents
                 /\ hi - k + 1 <= batch_size
                 /\ earlier \subseteq store
                 /\ log' = Append(log, Event("ingest", res'.raised))
                 /\ IF res'.raised = "none"
                    THEN /\ store' = store \cup rows
                         /\ res'.commits = 1
                         /\ res'.count = hi - k + 1
                         /\ pc' = "process"
                    ELSE /\ store' = store
                         /\ earlier \subseteq store'
                         /\ res'.commits = 0
                         /\ pc' = "aborted"
                         /\ error' = "HTTPException" ]_vars

\* A batch failed at its commit after an earlier batch had been committed:
\* the earlier record is stored, the failing one is not.
C11_Witness ==
    /\ pc = "aborted"
    /\ res.op = "ingest"
    /\ res.raised = "HTTPException"
    /\ IngestEvents >= 2
    /\ transformed_books[1].goodreads_id \in StoreIds(store)
    /\ \E j \in 2..Len(transformed_books) :
           transformed_books[j].goodreads_id \notin StoreIds(store)

\* ---- C12 ---------------------------------------------------------------
EnrichEvents == Len(SelectSeq(log, LAMBDA ev : ev.op = "enrich"))

\* C12: a fault while enriching or merging one new record does not abort
\* the run.  Every turn of the loop takes the next new record, once: either
\* the record is appended to the failed list, nothing is merged or stored
\* for it and the loop goes on, or its merged record is appended to the
\* transformed list.  The inserts that follow add rows of transformed
\* records only, and the run returns only after every new record has had
\* its turn.
C12_RecordFaultDoesNotAbort ==
    [][ /\ (pc = "process" /\ i <= Len(new_books)) =>
              /\ EnrichEvents = i - 1
              /\ Len(transformed_books) + Len(failed_books) = i - 1
              /\ i' = i + 1
              /\ pc' = "process"
              /\ error' = "none"
              /\ store' = store
              /\ \/ /\ log' = Append(log, Event("enrich", "Exception"))
                    /\ failed_books' = Append(failed_books, new_books[i])
                    /\ transformed_books' = transformed_books
                 \/ /\ failed_books' = failed_books
                    /\ Len(transformed_books') = Len(transformed_books) + 1
                    /\ SubSeq(transformed_books', 1, Len(transformed_books))
                           = transformed_books
                    /\ transformed_books'[Len(transformed_books')].goodreads_id
                           = new_books[i].goodreads_id
        /\ (pc = "process" /\ i > Len(new_books)) =>
              /\ failed_books' = failed_books
              /\ transformed_books' = transformed_books
              /\ store' \subseteq
                     store \cup {[goodreads_id |-> transformed_books[j].goodreads_id,
                                  status |-> transformed_books[j].status] :
                                     j \in 1..Len(transformed_books)}
        /\ pc' = "done" =>
              /\ i' = Len(new_books') + 1
              /\ Len(transformed_books') + Len(failed_books') = Len(new_books')
              /\ \A j \in 1..Len(transformed_books') :
                     transformed_books'[j].goodreads_id \in StoreIds(store') ]_vars

\* The first of two new records failed; the second was still merged and
\* inserted, the first was not.
C12_Witness ==
    /\ pc = "done"
    /\ Len(new_books) = 2
    /\ failed_books = <<new_books[1]>>
    /\ Len(transformed_books) = 1
    /\ transformed_books[1].goodreads_id = new_books[2].goodreads_id
    /\ new_books[2].goodreads_id \in StoreIds(store)
    /\ new_books[1].goodreads_id \notin StoreIds(store)

C13_NetworkFaultRaises ==
    \A p \in 1..Len(trace) :
        (trace[p].op = "get" /\ trace[p].response = "ConnectError") =>
            /\ p = Len(trace)
            /\ google_books_data = Raised

\* ---- C14 ---------------------------------------------------------------
\* C14: a query answered 429 is sent at most 3 times, always as the same
\* query.  After the first 429 the call sleeps 2 seconds and after the
\* second 4 seconds, each time before sending the query again; after the
\* third 429 it sleeps no more, the tier counts as no match and the call
\* goes to the next tier, or returns None when the tier was the last.
C14_RateLimitRetries ==
    \A p \in 1..Len(trace) :
        (trace[p].op = "get" /\ trace[p].response = "429") =>
            LET q == trace[p].query
                n == Cardinality({m \in 1..p : trace[m].op = "get" /\ trace[m].query = q})
            IN /\ n <= 3
               /\ \A m \in 1..p : trace[m].query = q => trace[m].response \in {"429", ""}
               /\ n < 3 =>
                     /\ p + 2 <= Len(trace)
                     /\ trace[p + 1].op = "sleep"
                     /\ trace[p + 1].query = q
                     /\ trace[p + 1].seconds = 2 ^ n
                     /\ trace[p + 2].op = "get"
                     /\ trace[p + 2].query = q
               /\ n = 3 =>
                     /\ google_books_data # Raised \/ p < Len(trace)
                     /\ IF p < Len(trace)
                        THEN /\ trace[p + 1].op = "get"
                             /\ trace[p + 1].query # q
                        ELSE IF q.by = "isbn"
                             THEN /\ google_books_data = Pending
                                  /\ tier \in {"isbn_10", "title_author"}
                             ELSE google_books_data = ReturnedNone

\* The ISBN-13 query was answered 429 three times and the ISBN-10 query
\* has been sent after it.
C14_Witness ==
    /\ Len(trace) >= 6
    /\ \A p \in {1, 3, 5} :
           /\ trace[p].op = "get"
           /\ trace[p].response = "429"
           /\ trace[p].query = [by |-> "isbn", q |-> "9780000000001"]
    /\ trace[6].op = "get"
    /\ trace[6].query = [by |-> "isbn", q |-> "0000000001"]

\* ---- C15 ---------------------------------------------------------------
\* The place of a request's query in the order ISBN-13, ISBN-10,
\* title+author.
TierRank(query) ==
    IF query.by = "isbn" THEN (IF query.q = isbn_13 THEN 1 ELSE 2) ELSE 3

GetsOfRank(r) ==
    {p \in 1..Len(trace) : trace[p].op = "get" /\ TierRank(trace[p].query) = r}

\* The tiers that apply to the call: ISBN-13 and ISBN-10 when present,
\* title+author always.
ApplicableRanks ==
    {r \in 1..3 : (r = 1 => isbn_13 # "") /\ (r = 2 => isbn_10 # "")}

\* C15: get_google_books_data sends its queries in the order ISBN-13 (if
\* present), ISBN-10 (if present), title+author: a tier is queried only
\* after every earlier applicable tier was queried and yielded no match, an
\* absent ISBN is never queried, the first answer with items ends the call
\* with that tier's result, and the call returns None only after every
\* applicable tier was queried and none matched.
C15_TiersInOrder ==
    /\ \A p \in 1..Len(trace) :
           trace[p].op = "get" =>
               LET r == TierRank(trace[p].query)
               IN /\ r \in ApplicableRanks
                  /\ trace[p].query.q # ""
                  /\ \A m \in 1..p : trace[m].op = "get" => TierRank(trace[m].query) <= r
                  /\ \A u \in ApplicableRanks :
                         u < r => /\ \E m \in GetsOfRank(u) : m < p
                                  /\ \A m \in GetsOfRank(u) : trace[m].response # "200_items"
                  /\ trace[p].response = "200_items" =>
                         /\ p = Len(trace)
                         /\ google_books_data = Matched(Tiers[r])
    /\ google_books_data.kind = "match" =>
           /\ trace # <<>>
           /\ trace[Len(trace)].response = "200_items"
    /\ google_books_data = ReturnedNone =>
           \A u \in ApplicableRanks :
               /\ GetsOfRank(u) # {}
               /\ \A m \in GetsOfRank(u) : trace[m].response # "200_items"

\* ISBN-13 and ISBN-10 were queried without a match and the title+author
\* query matched.
C15_Witness ==
    /\ google_books_data = Matched("title_author")
    /\ Len(trace) = 3
    /\ trace[1] = HttpGet([by |-> "isbn", q |-> "9780000000001"], "200_empty")
    /\ trace[2] = HttpGet([by |-> "isbn", q |-> "0000000001"], "200_empty")
    /\ trace[3] = HttpGet([by |-> "intitle+inauthor", q |-> "title+author"], "200_items")

\* ---- C16 ---------------------------------------------------------------
\* The requests of tier r ended without a match: the last one was answered
\* 200 without items, or it was the third one and answered 429 like the
\* two before it.
TierNoMatch(r) ==
    /\ GetsOfRank(r) # {}
    /\ LET last == CHOOSE m \in GetsOfRank(r) : \A n \in GetsOfRank(r) : n <= m
       IN \/ trace[last].response = "200_empty"
          \/ /\ trace[last].response = "429"
             /\ Cardinality(GetsOfRank(r)) = 3

EveryTierNoMatch == \A r \in ApplicableRanks : TierNoMatch(r)

\* C16: a new record for which every applicable tier ended without a match,
\* by an empty answer or by using up the retries on 429, is not a failure:
\* get_google_books_data returns None, the record does not go to the failed
\* list, its merged record is built from the candidate alone and appended
\* to the transformed list, and a run that returns has inserted it.
C16_NoMatchIsMergedAndInserted ==
    EveryTierNoMatch =>
        /\ google_books_data = ReturnedNone
        /\ tier \in {"returned", "none"}
        /\ tier = "none" =>
               /\ failed_books = <<>>
               /\ transformed_books =
                      <<[goodreads_id |-> new_books[1].goodreads_id,
                         status |-> new_books[1].status,
                         enriched |-> FALSE]>>
               /\ log[5] = Event("enrich", "none")
               /\ pc = "done" =>
                      [goodreads_id |-> new_books[1].goodreads_id,
                       status |-> new_books[1].status] \in store

\* ISBN-13 was answered without items, title+author was answered 429 three
\* times, and the run returned with the record inserted.
C16_Witness ==
    /\ pc = "done"
    /\ isbn_13 # ""
    /\ isbn_10 = ""
    /\ EveryTierNoMatch
    /\ Cardinality(GetsOfRank(3)) = 3
    /\ Len(transformed_books) = 1
    /\ ~transformed_books[1].enriched
    /\ store = {[goodreads_id |-> new_books[1].goodreads_id,
                  status |-> new_books[1].status]}

\* ---- C17 ---------------------------------------------------------------
\* transform_book has returned a record built with Google Books data.
MergedWithEnrichment ==
    /\ merge_pc = "done"
    /\ enriched_book # None
    /\ transformed_book.raised = "none"

\* C17 as stated: with an enrichment result present, the title of the
\* record transform_book builds is the enrichment's title, and the
\* candidate's title only when the enrichment's title is empty.
C17_TitleFromEnrichment ==
    MergedWithEnrichment =>
        transformed_book.book[1].title =
            IF enriched_book[1].title # "" THEN enriched_book[1].title
            ELSE csv_book.title

\* C17 amended: with an enrichment result present, the title of the record
\* transform_book builds is the candidate's title, and the enrichment's
\* title only when the candidate's title is empty.
C17_TitleFromCandidate ==
    MergedWithEnrichment =>
        transformed_book.book[1].title =
            IF csv_book.title # "" THEN csv_book.title
            ELSE enriched_book[1].title

\* Candidate and enrichment both have a title and the two differ.
C17_Witness ==
    /\ MergedWithEnrichment
    /\ csv_book.title = "Dune (Dune #1)"
    /\ enriched_book[1].title = "Dune Deluxe"
    /\ transformed_book.book[1].title = "Dune (Dune #1)"

\* ---- C18 ---------------------------------------------------------------
\* C18: with an enrichment result present, the page_count of the record is
\* the candidate's whenever the candidate has one, 0 included, and the
\* enrichment's only when the candidate has none.
C18_PageCountFromCandidate ==
    MergedWithEnrichment =>
        transformed_book.book[1].page_count =
            IF csv_book.num_pages # None THEN csv_book.num_pages
            ELSE enriched_book[1].page_count

\* The same for every candidate whose page count is not 0.
C18_HoldsForNonZero ==
    (MergedWithEnrichment /\ csv_book.num_pages # Some(0)) =>
        transformed_book.book[1].page_count =
            IF csv_book.num_pages # None THEN csv_book.num_pages
            ELSE enriched_book[1].page_count

\* ---- C19 ---------------------------------------------------------------
\* C19: with an enrichment result present, transform_book returns a record
\* (it does not fail for want of authors in the enrichment) and the
\* record's authors are the authors of the matched volume if it lists any,
\* otherwise the one-element list of the candidate's author.
C19_AuthorsFromEnrichmentOrCandidate ==
    (merge_pc = "done" /\ first_result # None) =>
        /\ transformed_book.raised = "none"
        /\ transformed_book.book[1].authors =
               IF first_result[1].authors # None /\ first_result[1].authors # Some(<<>>)
               THEN first_result[1].authors[1]
               ELSE <<csv_book.author>>

\* The matched volume lists no authors and the record carries the
\* candidate's.
C19_Witness ==
    /\ merge_pc = "done"
    /\ first_result # None
    /\ first_result[1].authors = None
    /\ csv_book.author = "Frank Herbert"
    /\ transformed_book.raised = "none"
    /\ transformed_book.book[1].authors = <<"Frank Herbert">>

\* ---- C20 ---------------------------------------------------------------
\* C20: with no enrichment result, transform_book returns the record made
\* of the candidate's title, the one-element list of its author, its
\* page_count (absent, 0 or more), status, goodreads_id and finish_date,
\* with every enrichment-only field absent; the record is a function of the
\* candidate alone.
C20_AbsentEnrichmentCandidateOnly ==
    (merge_pc = "done" /\ first_result = None) =>
        transformed_book =
            [raised |-> "none",
             book |-> Some([title |-> csv_book.title,
                            authors |-> <<csv_book.author>>,
                            page_count |-> csv_book.num_pages,
                            status |-> csv_book.status,
                            goodreads_id |-> csv_book.goodreads_id,
                            finish_date |-> csv_book.finish_date,
                            google_books_id |-> None,
                            categories |-> None,
                            genre |-> None])]

\* A candidate with 0 pages and a finish date was merged with no
\* enrichment.
C20_Witness ==
    /\ merge_pc = "done"
    /\ first_result = None
    /\ csv_book.num_pages = Some(0)
    /\ csv_book.finish_date # None
    /\ transformed_book.book[1].page_count = Some(0)
    /\ transformed_book.book[1].google_books_id = None

\* ---- C21 ---------------------------------------------------------------
\* The file was a CSV file with all required columns and has been parsed.
ParsedRows ==
    /\ parsed # NotParsed
    /\ source.kind = "csv"
    /\ source.header = required_columns

\* The rows of the file whose shelf is one of the status literals.
RowsWithStatus == SelectSeq(source.rows, LAMBDA row : strip(row.Exclusive_Shelf) \in Status)

\* C21: a row whose Date Read is empty or is not a YYYY/MM/DD date is not
\* fatal to parsing: parse_goodreads_csv returns, and its list holds, in
\* source order, the record of every row with a known shelf, with
\* finish_date absent where the row's date is empty or does not parse.
C21_BadDateRowKept ==
    ParsedRows =>
        /\ parsed.raised = "none"
        /\ Len(parsed.books) = Len(RowsWithStatus)
        /\ \A m \in 1..Len(parsed.books) :
               /\ parsed.books[m].goodreads_id = RowsWithStatus[m].Book_Id
               /\ parsed.books[m].finish_date =
                      IF RowsWithStatus[m].Date_Read = "2024/01/31"
                      THEN Some("2024-01-31") ELSE None

\* The same for the files in which every date is empty or YYYY/MM/DD.
C21_HoldsForEmptyDate ==
    (ParsedRows /\ \A j \in 1..Len(source.rows) :
                       source.rows[j].Date_Read # "31 Jan 2024") =>
        /\ parsed.raised = "none"
        /\ Len(parsed.books) = Len(RowsWithStatus)
        /\ \A m \in 1..Len(parsed.books) :
               /\ parsed.books[m].goodreads_id = RowsWithStatus[m].Book_Id
               /\ parsed.books[m].finish_date =
                      IF RowsWithStatus[m].Date_Read = "2024/01/31"
                      THEN Some("2024-01-31") ELSE None

\* ---- C22 ---------------------------------------------------------------
\* C22: every record parse_goodreads_csv returns has a non-empty
\* goodreads_id, a non-empty title and a non-empty author: a row whose
\* Title, Author or Book Id is empty after trimming leaves no record.
C22_RecordsHaveIdTitleAuthor ==
    \A m \in 1..Len(parsed.books) :
        /\ parsed.books[m].goodreads_id # 0
        /\ parsed.books[m].title # ""
        /\ parsed.books[m].author # ""

\* What holds instead: such a row does not abort parsing, and the fields of
\* its record are the trimmed fields of the row, empty or not.
C22_EmptyFieldsAreKept ==
    (ParsedRows /\ parsed.raised = "none") =>
        /\ Len(parsed.books) = Len(RowsWithStatus)
        /\ \A m \in 1..Len(parsed.books) :
               /\ parsed.books[m].goodreads_id = RowsWithStatus[m].Book_Id
               /\ parsed.books[m].title = strip(RowsWithStatus[m].Title)
               /\ parsed.books[m].author = RowsWithStatus[m].Author

\* ---- C23 ---------------------------------------------------------------
\* The file is missing, unreadable, empty, or lacks a required column.
UnusableSource ==
    \/ source.kind \in {"missing", "unreadable", "empty"}
    \/ source.kind = "csv" /\ source.header # required_columns

\* C23: on a file that is missing, unreadable, empty or without one of the
\* required columns, the run ends at the parse with an exception, and no
\* step of it opens a session, calls a pass or changes the store.
C23_UnusableSourceIsFatal ==
    [][ UnusableSource =>
          /\ pc = "parse" => (pc' = "aborted" /\ error' # "none")
          /\ pc' \in {"parse", "aborted"}
          /\ session' = "none"
          /\ store' = store
          /\ res' = NoResult
          /\ log' \in {<<>>, <<Event("parse", error')>>} ]_vars

\* The run on a file without the Date Read column ended at the parse with
\* rows in the table.
C23_Witness ==
    /\ source.kind = "csv"
    /\ "Date Read" \notin source.header
    /\ pc = "aborted"
    /\ error = "ValueError"
    /\ session = "none"
    /\ store # {}

\* ---- C24 ---------------------------------------------------------------
\* The number of enrichment calls among the first p steps of the run.
EnrichEventsUpTo(p) ==
    Cardinality({m \in 1..p : log[m].op = "enrich"})

\* C24: after the enrichment call of every new record but the last, whatever
\* its outcome, the next step of the run is the 0.5 s sleep, and after the
\* sleep the next enrichment call; after the enrichment call of the last
\* new record the run does not sleep.
C24_DelayBetweenEnrichments ==
    \A p \in 1..(Len(log) - 1) :
        /\ log[p].op = "enrich" =>
               (log[p + 1].op = "sleep" <=> EnrichEventsUpTo(p) < Len(new_books))
        /\ log[p].op = "sleep" => log[p + 1].op = "enrich"

\* The same after the enrichment calls that returned and were merged.
C24_HoldsAfterSuccess ==
    \A p \in 1..(Len(log) - 1) :
        /\ (log[p].op = "enrich" /\ log[p].raised = "none") =>
               (log[p + 1].op = "sleep" <=> EnrichEventsUpTo(p) < Len(new_books))
        /\ log[p].op = "sleep" => log[p + 1].op = "enrich"

\* ---- C25 ---------------------------------------------------------------
\* C25: in every run the update pass, then the delete pass, have returned
\* before deduplicate_books is called, and deduplicate_books has returned
\* before the first enrichment call and the first insert.
C25_PassesInOrder ==
    \A p \in 1..Len(log) :
        /\ log[p].op = "update" => (p = 2 /\ log[1] = Event("parse", "none"))
        /\ log[p].op = "delete" => (p = 3 /\ log[2] = Event("update", "none"))
        /\ log[p].op = "dedup" =>
               /\ p = 4
               /\ log[2] = Event("update", "none")
               /\ log[3] = Event("delete", "none")
        /\ log[p].op \in {"enrich", "sleep", "ingest"} =>
               /\ p > 4
               /\ log[4] = Event("dedup", "none")

\* A run that went through the passes, an enrichment call and an insert.
C25_Witness ==
    /\ pc = "done"
    /\ Len(log) >= 7
    /\ log[5].op = "enrich"
    /\ \E p \in 6..Len(log) : log[p].op = "ingest"
    /\ updated_ids # {}
    /\ deleted_ids # {}

SessionInScope ==
    /\ session = "none" <=> (pc = "parse" \/ (pc = "aborted" /\ Len(log) = 1))
    /\ session = "open" <=> pc \in {"update", "delete", "dedup", "process"}
    /\ session = "closed" <=> (pc = "done" \/ (pc = "aborted" /\ Len(log) > 1))

SessionOpenedOnce ==
    /\ (session' = "open" /\ session # "open") =>
           (session = "none" /\ log' = <<Event("parse", "none")>>)
    /\ session = "closed" => session' = "closed"

\* C27: the run's session is opened once, after parse_goodreads_csv
\* returned, stays open while the run stands inside the `with` block, and
\* is closed when the run has ended, by its normal return or by an exception
\* of the update, delete, new-record detection or insert step; a closed
\* session is never opened again.
C27_SessionScopedToRun == []SessionInScope /\ [][SessionOpenedOnce]_vars

\* A run that ended by a raise of the insert step after one of its batches
\* was committed, its session closed.
C27_Witness ==
    /\ pc = "aborted"
    /\ session = "closed"
    /\ log[Len(log)] = Event("ingest", "HTTPException")
    /\ \E p \in 1..Len(log) : log[p] = Event("ingest", "none")

\* ---- C28 ---------------------------------------------------------------
\* The incoming records no stored row has the goodreads_id of.
NotStored ==
    SelectSeq(books, LAMBDA b : b.goodreads_id \notin (StoreIds(store) \cap incoming_ids(books)))

\* The new-record detection of the run either returns the new set computed
\* from the whole query result, or raises and ends the run there.
DedupReturnsOrStops ==
    pc = "dedup" =>
        \/ /\ res'.raised = "none"
           /\ pc' = "process"
           /\ new_books' = NotStored
        \/ /\ res'.raised # "none"
           /\ pc' = "aborted"
           /\ error' = res'.raised
           /\ new_books' = <<>>
           /\ session' = "closed"
           /\ store' = store

\* A run that ended at the new-record detection has called no enrichment
\* and made no insert.
NothingAfterDedupFault ==
    (pc = "aborted" /\ res.op = "dedup") =>
        /\ log[Len(log)].op = "dedup"
        /\ \A p \in 1..Len(log) : log[p].op \notin {"enrich", "sleep", "ingest", "return"}
        /\ transformed_books = <<>>
        /\ new_books = <<>>
        /\ error # "none"

\* C28: when the query of deduplicate_books fails, an error leaves the run
\* at once: no new set is returned, no enrichment call and no insert
\* follows; the run goes on to the record loop only with the new set that a
\* query without fault gives.
C28_DedupFaultStopsRun == []NothingAfterDedupFault /\ [][DedupReturnsOrStops]_vars

\* A run that ended at the new-record detection though an incoming record
\* was new, after an update pass that changed a row.
C28_Witness ==
    /\ pc = "aborted"
    /\ res.op = "dedup"
    /\ res.raised = "UnboundLocalError"
    /\ NotStored # <<>>
    /\ updated_ids # {}

\* ---- C29 ---------------------------------------------------------------
\* The rows of the file that are valid: a known shelf and, after trimming,
\* a title, an author and a Book Id.
ValidRows ==
    SelectSeq(source.rows,
              LAMBDA row : /\ strip(row.Exclusive_Shelf) \in Status
                           /\ strip(row.Title) # ""
                           /\ strip(row.Author) # ""
                           /\ row.Book_Id # 0)

\* The file has been parsed twice.
ParsedTwice == ParsedRows /\ reparsed # NotParsed

\* C29: two calls of parse_goodreads_csv on the same file return the same
\* list, and the list holds one record for every valid row of the file, in
\* the order of the rows, and no other record.
C29_ParseTwiceSameValidRows ==
    (ParsedTwice /\ parsed.raised = "none") =>
        /\ reparsed = parsed
        /\ Len(parsed.books) = Len(ValidRows)
        /\ \A m \in 1..Len(parsed.books) :
               /\ m <= Len(ValidRows)
               /\ parsed.books[m].goodreads_id = ValidRows[m].Book_Id
               /\ parsed.books[m].title = strip(ValidRows[m].Title)
               /\ parsed.books[m].author = strip(ValidRows[m].Author)
               /\ parsed.books[m].status = strip(ValidRows[m].Exclusive_Shelf)

\* What holds instead: the two calls end alike, by the same list or the
\* same exception, and a returned list holds one record for every row with
\* a known shelf, in the order of the rows.
C29_ParseTwiceSame ==
    ParsedTwice =>
        /\ reparsed = parsed
        /\ parsed.raised = "none" =>
               /\ Len(parsed.books) = Len(RowsWithStatus)
               /\ \A m \in 1..Len(parsed.books) :
                      /\ parsed.books[m].goodreads_id = RowsWithStatus[m].Book_Id
                      /\ parsed.books[m].title = strip(RowsWithStatus[m].Title)
                      /\ parsed.books[m].author = strip(RowsWithStatus[m].Author)
                      /\ parsed.books[m].status = strip(RowsWithStatus[m].Exclusive_Shelf)

\* Both calls returned for a file of two rows that differ.
C29_ParsedTwoRowsTwice ==
    /\ ParsedTwice
    /\ parsed.raised = "none"
    /\ Len(parsed.books) = 2
    /\ parsed.books[1] # parsed.books[2]

\* ---- C30 ---------------------------------------------------------------
\* The last call was a by-id endpoint, the table answered, and no row had
\* the id of the request.
UnknownIdRequested ==
    /\ res.op \in {"get_book_by_id", "delete_book_by_id", "update_book_by_id"}
    /\ res.fault = "none"
    /\ \A r \in before : r.id # res.book_id

\* C30: get_book_by_id, delete_book_by_id and update_book_by_id, called
\* with an id that no stored row has, answer 404 and leave the table as it
\* was.
C30_UnknownIdIs404 ==
    UnknownIdRequested => (res.status_code = 404 /\ store = before)

\* What holds instead: get and delete answer 404, update answers 204, and
\* none of the three changes the table.
C30_UnknownIdIs404ButForUpdate ==
    UnknownIdRequested =>
        /\ res.status_code = IF res.op = "update_book_by_id" THEN 204 ELSE 404
        /\ store = before

\* ---- C31 ---------------------------------------------------------------
\* The store and the two counts that the two passes, called in the order
\* opposite to the one the log shows, give from the same store and list.
OtherOrder ==
    IF log[1].op = "update"
    THEN LET d == delete_books(books, store0, "none")
             u == update_books(books, d.store, "none")
         IN [store |-> u.store, books_updated |-> u.count, books_deleted |-> d.count]
    ELSE LET u == update_books(books, store0, "none")
             d == delete_books(books, u.store, "none")
         IN [store |-> d.store, books_updated |-> u.count, books_deleted |-> d.count]

\* The count the pass op returned, as logged.
CountOf(op) == log[CHOOSE p \in 1..Len(log) : log[p].op = op].count

\* C31: update_books then delete_books leaves the store, and returns the
\* two counts, that delete_books then update_books leaves and returns, for
\* every store and every incoming list.
C31_UpdateAndDeleteCommute ==
    Len(log) = 2 =>
        /\ store = OtherOrder.store
        /\ CountOf("update") = OtherOrder.books_updated
        /\ CountOf("delete") = OtherOrder.books_deleted

\* Both passes were called, update first, and each changed the store.
C31_Witness ==
    /\ Len(log) = 2
    /\ log[1].op = "update"
    /\ log[1].count > 0
    /\ log[2].count > 0
    /\ store # {}

\* ---- C32 ---------------------------------------------------------------
\* The record loop is over: what is left of transformed_books from k on is
\* still to be handed to ingest_books_to_db.
InsertsPending == pc = "process" /\ i > Len(new_books)

\* No two records of the parsed list have the same goodreads_id.
DistinctIncoming ==
    \A m, n \in 1..Len(books) : books[m].goodreads_id = books[n].goodreads_id => m = n

\* C32: a record that the run hands to ingest_books_to_db has a
\* goodreads_id that no stored row has when it is handed over and that no
\* other record handed over in the run has, whatever list was parsed.
C32_InsertedIdsAreFresh ==
    InsertsPending =>
        \A m \in k..Len(transformed_books) :
            /\ transformed_books[m].goodreads_id \notin StoreIds(store)
            /\ \A n \in 1..Len(transformed_books) :
                   transformed_books[n].goodreads_id = transformed_books[m].goodreads_id
                       => n = m

\* The same for the parsed lists in which no goodreads_id occurs twice.
C32_HoldsForDistinctIncoming ==
    (InsertsPending /\ DistinctIncoming) =>
        \A m \in k..Len(transformed_books) :
            /\ transformed_books[m].goodreads_id \notin StoreIds(store)
            /\ \A n \in 1..Len(transformed_books) :
                   transformed_books[n].goodreads_id = transformed_books[m].goodreads_id
                       => n = m

\* ---- C33 ---------------------------------------------------------------
\* The records of q at the positions in T, in the order of q.
PickAt(q, T) ==
    LET idx == SelectSeq([j \in 1..Len(q) |-> j], LAMBDA j : j \in T)
    IN [m \in 1..Len(idx) |-> q[idx[m]]]

\* The candidates the transformed records were built from.
TransformedFrom ==
    [m \in 1..Len(transformed_books) |->
        [goodreads_id |-> transformed_books[m].goodreads_id,
         status |-> transformed_books[m].status]]

\* The last step was a successful ingest_books_to_db of the records of
\* transformed_books at the positions k - batch_size .. k - 1.
LastBatchWritten ==
    LET first == k - batch_size
        last == IF k - 1 < Len(transformed_books) THEN k - 1 ELSE Len(transformed_books)
    IN res.written = [m \in 1..(last - first + 1) |->
                         transformed_books[first + m - 1].goodreads_id]

\* C33: once the record loop is over, the positions of new_books split
\* into those of the transformed records and those of the failed records,
\* each list in the order of new_books; every batch handed to
\* ingest_books_to_db is the next batch_size records of transformed_books,
\* and a run that returned has handed over all of them.
C33_TransformedAndFailedSplitNew ==
    i > Len(new_books) =>
        /\ \E T \in SUBSET (1..Len(new_books)) :
               /\ TransformedFrom = PickAt(new_books, T)
               /\ failed_books = PickAt(new_books, (1..Len(new_books)) \ T)
        /\ (res.op = "ingest" /\ res.raised = "none") => LastBatchWritten
        /\ pc = "done" =>
               /\ k > Len(transformed_books)
               /\ IngestEvents * batch_size >= Len(transformed_books)
               /\ IngestEvents * batch_size < Len(transformed_books) + batch_size

\* A run that returned after one record failed, one was transformed, and
\* the transformed one was inserted.
C33_Witness ==
    /\ pc = "done"
    /\ Len(failed_books) = 1
    /\ Len(transformed_books) = 1
    /\ failed_books[1] = new_books[1]
    /\ res.op = "ingest"
    /\ res.written = <<transformed_books[1].goodreads_id>>

\* ---- C34 ---------------------------------------------------------------
\* Where the first run's "return" stands in the log.
FirstReturn == CHOOSE p \in 1..Len(log) : log[p].op = "return"

\* The run under way is the second, and in the first no record failed.
SecondRunAfterCleanRun ==
    /\ ncalls = 1
    /\ \A p \in 1..FirstReturn : log[p] # Event("enrich", "Exception")

\* The second run has, so far, changed nothing and found nothing to do.
SecondRunIdle ==
    /\ store = store0
    /\ res.op \in {"update", "delete"} => res.count = 0
    /\ updated_ids = {}
    /\ deleted_ids = {}
    /\ new_books = <<>>
    /\ \A p \in (FirstReturn + 1)..Len(log) : log[p].op \notin {"enrich", "sleep", "ingest"}

\* C34: a run on the candidates of a run that has just returned with no
\* failed record updates 0 rows, deletes 0 rows, finds an empty new set,
\* calls no enrichment, inserts nothing and leaves the store as it was.
C34_SecondRunChangesNothing == SecondRunAfterCleanRun => SecondRunIdle

\* The same for the candidate lists in which every goodreads_id is
\* non-empty and occurs once.
C34_HoldsForDistinctNonEmptyIds ==
    (SecondRunAfterCleanRun /\ DistinctIncoming /\ 0 \notin AllIds(books)) => SecondRunIdle

\* A second run that returned after a first run that inserted a record.
C34_SecondRunReturned ==
    /\ ncalls = 1
    /\ pc = "done"
    /\ DistinctIncoming
    /\ 0 \notin AllIds(books)
    /\ \E p \in 1..FirstReturn : log[p] = Event("ingest", "none")

\* ---- C35 ---------------------------------------------------------------
\* The new-record detection of the second run has returned.
SecondRunDetected ==
    /\ ncalls = 1
    /\ \E p \in (FirstReturn + 1)..Len(log) : log[p] = Event("dedup", "none")

\* The enrichment calls of the second run so far.
SecondRunEnrichEvents ==
    Cardinality({p \in (FirstReturn + 1)..Len(log) : log[p].op = "enrich"})

\* C35: a new record whose enrichment or merge failed has no row when the
\* run returns, is in the new set of the next run on the same candidates
\* and is attempted again (a second run that returns has called the
\* enrichment for every record of its new set); a record that was enriched,
\* merged and inserted has a row and is not in the new set of the next run.
C35_FailedRecordsAreRetried ==
    /\ pc = "done" =>
           /\ \A m \in 1..Len(failed_books) :
                  failed_books[m].goodreads_id \notin StoreIds(store)
           /\ \A m \in 1..Len(transformed_books) :
                  transformed_books[m].goodreads_id \in StoreIds(store)
    /\ SecondRunDetected =>
           /\ \A m \in 1..Len(earlier_failed) :
                  \E n \in 1..Len(new_books) : new_books[n] = earlier_failed[m]
           /\ \A m \in 1..Len(earlier_transformed) :
                  \A n \in 1..Len(new_books) :
                      new_books[n].goodreads_id # earlier_transformed[m].goodreads_id
    /\ (SecondRunDetected /\ pc = "done") => SecondRunEnrichEvents = Len(new_books)

\* The same for the candidate lists in which every goodreads_id is
\* non-empty and occurs once.
C35_HoldsForDistinctNonEmptyIds ==
    (DistinctIncoming /\ 0 \notin AllIds(books)) => C35_FailedRecordsAreRetried

\* A second run that returned, after a first run in which one record
\* failed and one was inserted.
C35_SecondRunRetried ==
    /\ SecondRunDetected
    /\ pc = "done"
    /\ DistinctIncoming
    /\ 0 \notin AllIds(books)
    /\ Len(earlier_failed) = 1
    /\ Len(earlier_transformed) = 1
    /\ Len(transformed_books) = 1

\* ---- C36 ---------------------------------------------------------------
\* The backoff waits of the tier of rank r.
SleepsOfRank(r) ==
    {p \in 1..Len(trace) : trace[p].op = "sleep" /\ TierRank(trace[p].query) = r}

\* C36: whatever the service answers, one call of get_google_books_data
\* sends at most 9 requests, at most 3 for a tier and none for a tier whose
\* ISBN is absent, and waits at most twice for a tier; an answer other than
\* 429 is the last thing its tier does, every wait is followed by the next
\* request of the same tier, and the call is over once the last tier is.
C36_RequestsAndWaitsBounded ==
    /\ Cardinality({p \in 1..Len(trace) : trace[p].op = "get"}) <= 9
    /\ \A r \in 1..3 :
           /\ Cardinality(GetsOfRank(r)) <= 3
           /\ Cardinality(SleepsOfRank(r)) <= 2
           /\ r \notin ApplicableRanks => (GetsOfRank(r) = {} /\ SleepsOfRank(r) = {})
    /\ \A p \in 1..Len(trace) :
           /\ (trace[p].op = "get" /\ trace[p].response # "429") =>
                  \A m \in (p + 1)..Len(trace) : trace[m].query # trace[p].query
           /\ trace[p].op = "sleep" =>
                  /\ p < Len(trace)
                  /\ trace[p + 1].op = "get"
                  /\ trace[p + 1].query = trace[p].query
    /\ tier \in {"returned", "raised", "none"} => google_books_data # Pending

\* Every tier applied and every request was answered 429: 9 requests, 6
\* waits, and the call returned None.
C36_Witness ==
    /\ google_books_data = ReturnedNone
    /\ Cardinality({p \in 1..Len(trace) : trace[p].op = "get"}) = 9
    /\ Cardinality({p \in 1..Len(trace) : trace[p].op = "sleep"}) = 6
    /\ \A r \in 1..3 : Cardinality(GetsOfRank(r)) = 3

====
